---- MODULE Spec2Model ----
(***************************************************************************)
(* SsrCookieService (ngx-cookie-service-ssr backport): the cookie string   *)
(* parser, the request/response reconciler, the two sink encoders and the  *)
(* public accessor, as a state machine over the document cookie store      *)
(* (client side) and the request / response pair (server side).            *)
(*                                                                         *)
(* Text is modelled by TLA+ strings, read with Len and SubSeq and built    *)
(* with \o.  A JavaScript value that may be undefined is a record          *)
(* [type, value]; a Map is the sequence of its <<key, value>> entries in   *)
(* insertion order.  Points in time are milliseconds since the epoch.      *)
(***************************************************************************)
EXTENDS Integers, Sequences, FiniteSets, TLC

(***************************************************************************)
(* Characters and strings                                                  *)
(***************************************************************************)

\* The characters of the model, by code: 9 (tab), 10 (line feed), 12 (form
\* feed), 13 (carriage return), the printable ASCII characters 32 (space)
\* to 95 (_) and 97 (a) to 126 (~), and the Latin-1 characters 160 to 255.
\* Code 96 cannot be written in a TLA+ string.  CharCode and FromCharCode are
\* defined on these characters and codes only.
AsciiLow ==
    " !\"#$%&'()*+,-./0123456789:;<=>?@ABCDEFGHIJKLMNOPQRSTUVWXYZ[\\]^_"

AsciiHigh == "abcdefghijklmnopqrstuvwxyz{|}~"

Latin1High ==
    " ¡¢£¤¥¦§¨©ª«¬­®¯°±²³´µ¶·¸¹º»¼½¾¿ÀÁÂÃÄÅÆÇÈÉÊËÌÍÎÏÐÑÒÓÔÕÖ×ØÙÚÛÜÝÞßàáâãäåæçèéêëìíîïðñòóôõö÷øùúûüýþÿ"

CharAt(s, i) == SubSeq(s, i, i)

\* Position of the one-character string c in s at or after from; 0 if none.
IndexFrom(s, c, from) ==
    LET first(hits) ==
            IF hits = {} THEN 0 ELSE CHOOSE i \in hits : \A j \in hits : i <= j
    IN  first({ i \in from..Len(s) : CharAt(s, i) = c })

IndexOf(s, c) == IndexFrom(s, c, 1)

\* String.prototype.charCodeAt(0) of a one-character string.
CharCode(c) ==
    CASE c = "\t" -> 9
      [] c = "\n" -> 10
      [] c = "\f" -> 12
      [] c = "\r" -> 13
      [] IndexOf(AsciiLow, c) # 0 -> 31 + IndexOf(AsciiLow, c)
      [] IndexOf(AsciiHigh, c) # 0 -> 96 + IndexOf(AsciiHigh, c)
      [] IndexOf(Latin1High, c) # 0 -> 159 + IndexOf(Latin1High, c)

\* String.fromCharCode(b)
FromCharCode(b) ==
    CASE b = 9 -> "\t"
      [] b = 10 -> "\n"
      [] b = 12 -> "\f"
      [] b = 13 -> "\r"
      [] b >= 32 /\ b <= 95 -> CharAt(AsciiLow, b - 31)
      [] b >= 97 /\ b <= 126 -> CharAt(AsciiHigh, b - 96)
      [] b >= 160 /\ b <= 255 -> CharAt(Latin1High, b - 159)

HexDigits == "0123456789ABCDEF"

IsHexDigit(c) == IndexOf("0123456789ABCDEFabcdef", c) # 0

HexValue(c) ==
    LET p == IndexOf("0123456789ABCDEFabcdef", c)
    IN  IF p > 16 THEN p - 7 ELSE p - 1

HexByte(b) == CharAt(HexDigits, (b \div 16) + 1) \o CharAt(HexDigits, (b % 16) + 1)

\* String.prototype.split with a one-character separator: the pieces
\* between the separators, at least one piece.
RECURSIVE Split(_, _)
Split(s, sep) ==
    LET p == IndexOf(s, sep)
    IN  IF p = 0 THEN << s >>
        ELSE << SubSeq(s, 1, p - 1) >> \o Split(SubSeq(s, p + 1, Len(s)), sep)

\* String.prototype.toLowerCase: the letters A to Z and the Latin-1 capitals
\* (codes 192 to 222 but the multiplication sign 215) move up by 32.
RECURSIVE toLowerCase(_)
toLowerCase(s) ==
    LET lower(c, a, l) ==
            IF a # 0 THEN CharAt("abcdefghijklmnopqrstuvwxyz", a)
            ELSE IF l >= 33 /\ l <= 63 /\ l # 56 THEN CharAt(Latin1High, l + 32)
            ELSE c
    IN  IF s = "" THEN ""
        ELSE lower(SubSeq(s, 1, 1),
                   IndexOf("ABCDEFGHIJKLMNOPQRSTUVWXYZ", SubSeq(s, 1, 1)),
                   IndexOf(Latin1High, SubSeq(s, 1, 1)))
                 \o toLowerCase(Tail(s))

\* str.replace(/^ +/, ""): drop every leading space.
RECURSIVE StripLeadingSpaces(_)
StripLeadingSpaces(s) ==
    IF s # "" /\ Head(s) = " " THEN StripLeadingSpaces(Tail(s)) ELSE s

(***************************************************************************)
(* JavaScript values that may be undefined                                 *)
(***************************************************************************)

Undefined(dflt) == [type |-> "undefined", value |-> dflt]
Str(s)   == [type |-> "string",  value |-> s]
Bool(b)  == [type |-> "boolean", value |-> b]
Num(n)   == [type |-> "number",  value |-> n]
DateOf(t) == [type |-> "Date",   value |-> t]

UndefinedString == Undefined("")
UndefinedBool   == Undefined(FALSE)
UndefinedTime   == Undefined(0)

\* ToBoolean: undefined, false, 0 and '' are falsy; a Date is an object.
Truthy(v) ==
    CASE v.type = "undefined" -> FALSE
      [] v.type = "string"    -> v.value # ""
      [] v.type = "boolean"   -> v.value
      [] v.type = "number"    -> v.value # 0
      [] OTHER                -> TRUE

\* ToString of a string-or-undefined value.
ToJSString(v) == IF v.type = "undefined" THEN "undefined" ELSE v.value

(***************************************************************************)
(* Percent-encoding                                                        *)
(***************************************************************************)

\* Characters encodeURIComponent leaves alone.
UriUnreserved ==
    "ABCDEFGHIJKLMNOPQRSTUVWXYZabcdefghijklmnopqrstuvwxyz0123456789-_.!~*'()"

\* encodeURIComponent: every other character becomes the escapes of the
\* bytes of its UTF-8 form, one byte below code 128 and two bytes from
\* code 128 to code 2047.
RECURSIVE encodeURIComponent(_)
encodeURIComponent(s) ==
    LET utf8(cp) ==
            IF cp < 128 THEN "%" \o HexByte(cp)
            ELSE "%" \o HexByte(192 + (cp \div 64))
                     \o "%" \o HexByte(128 + (cp % 64))
        encoded(c) == IF IndexOf(UriUnreserved, c) # 0 THEN c ELSE utf8(CharCode(c))
    IN  IF s = "" THEN ""
        ELSE encoded(SubSeq(s, 1, 1)) \o encodeURIComponent(Tail(s))

\* The byte written as %XY at position i of s, or -1 if s has no
\* well-formed escape there.
EscapeAt(s, i) ==
    IF /\ i + 2 <= Len(s)
       /\ CharAt(s, i) = "%"
       /\ IsHexDigit(CharAt(s, i + 1))
       /\ IsHexDigit(CharAt(s, i + 2))
    THEN 16 * HexValue(CharAt(s, i + 1)) + HexValue(CharAt(s, i + 2))
    ELSE -1

\* Number of continuation bytes a UTF-8 lead byte announces; -1 if the
\* byte cannot start a sequence.
Utf8Trail(b) ==
    CASE b >= 194 /\ b <= 223 -> 1
      [] b >= 224 /\ b <= 239 -> 2
      [] b >= 240 /\ b <= 244 -> 3
      [] OTHER                -> -1

\* Allowed range of the second byte of a sequence starting with lead.
Utf8SecondOk(lead, b) ==
    CASE lead = 224 -> b >= 160 /\ b <= 191
      [] lead = 237 -> b >= 128 /\ b <= 159
      [] lead = 240 -> b >= 144 /\ b <= 191
      [] lead = 244 -> b >= 128 /\ b <= 143
      [] OTHER      -> b >= 128 /\ b <= 191

\* Are the n escapes after the lead escape at i well-formed continuations?
Utf8TrailOk(s, i, lead, n) ==
    LET continues(k, b) ==
            IF k = 1 THEN Utf8SecondOk(lead, b) ELSE b >= 128 /\ b <= 191
    IN  \A k \in 1..n : continues(k, EscapeAt(s, i + 3 * k))

\* The code point of the UTF-8 sequence of n + 1 escapes at position i,
\* whose lead byte is lead.
Utf8CodePoint(s, i, lead, n) ==
    LET trail(k) == EscapeAt(s, i + 3 * k) - 128
    IN  CASE n = 0 -> lead
          [] n = 1 -> (lead - 192) * 64 + trail(1)
          [] n = 2 -> (lead - 224) * 4096 + trail(1) * 64 + trail(2)
          [] n = 3 -> (lead - 240) * 262144 + trail(1) * 4096
                          + trail(2) * 64 + trail(3)

\* decodeURIComponent: every escape sequence becomes the character of its
\* code point; [threw |-> TRUE] stands for the URIError raised on a malformed
\* escape sequence.
RECURSIVE DecodeFrom(_, _)
DecodeFrom(s, i) ==
    LET prepend(ch, rest) == [threw |-> rest.threw, value |-> ch \o rest.value]
        decoded(cp, rest) ==
            IF rest.threw THEN rest
            ELSE [threw |-> FALSE, value |-> FromCharCode(cp) \o rest.value]
        \* the escape at i gives lead byte b, which announces n more bytes
        sequence(b, n) ==
            IF b < 0 \/ n < 0 \/ ~Utf8TrailOk(s, i, b, n)
            THEN [threw |-> TRUE, value |-> ""]
            ELSE decoded(Utf8CodePoint(s, i, b, n),
                         DecodeFrom(s, i + 3 * (n + 1)))
        escape(b) == sequence(b, IF b >= 0 /\ b < 128 THEN 0 ELSE Utf8Trail(b))
    IN  IF i > Len(s) THEN [threw |-> FALSE, value |-> ""]
        ELSE IF CharAt(s, i) # "%"
        THEN prepend(CharAt(s, i), DecodeFrom(s, i + 1))
        ELSE escape(EscapeAt(s, i))

\* decodeURIComponent applies ToString to its argument first.
decodeURIComponent(v) == DecodeFrom(ToJSString(v), 1)

\* Variant of safeDecodeURIComponent that gives the empty string for a
\* text decodeURIComponent rejects.
safeDecodeURIComponentOrEmpty(v) ==
    LET caught(d) == IF d.threw THEN "" ELSE d.value
    IN  caught(decodeURIComponent(v))

\* try { return decodeURIComponent(v) } catch { return v }: only a string
\* can make decodeURIComponent raise.
safeDecodeURIComponent(v) ==
    LET caught(d) == IF d.threw THEN v.value ELSE d.value
    IN  caught(decodeURIComponent(v))

(***************************************************************************)
(* Map: the sequence of its <<key, value>> entries in insertion order      *)
(***************************************************************************)

EmptyMap == << >>

MapHas(m, k) == \E i \in 1..Len(m) : m[i][1] = k

\* Map.prototype.get: the value of the key, or undefined.
MapGet(m, k) ==
    IF MapHas(m, k)
    THEN Str(m[CHOOSE i \in 1..Len(m) : m[i][1] = k][2])
    ELSE UndefinedString

\* Variant of MapSet that keeps the value of an existing key.
MapSetKeepingFirst(m, k, v) ==
    IF MapHas(m, k) THEN m ELSE Append(m, << k, v >>)

\* Map.prototype.set: an existing key keeps its place and takes the new
\* value, a new key goes last.
MapSet(m, k, v) ==
    IF MapHas(m, k)
    THEN [i \in 1..Len(m) |-> IF m[i][1] = k THEN << k, v >> ELSE m[i]]
    ELSE Append(m, << k, v >>)

\* Array destructuring [a, b] = parts: an element past the end is undefined.
ElementAt(parts, i) == IF i <= Len(parts) THEN Str(parts[i]) ELSE UndefinedString

(***************************************************************************)
(* Parser                                                                  *)
(***************************************************************************)

\* The callback of forEach: the map after one segment of the cookie string.
cookieStringToMapEntry(cookies, currentCookie) ==
    LET entry(parts) ==
            MapSet(cookies,
                   safeDecodeURIComponent(Str(StripLeadingSpaces(parts[1]))),
                   safeDecodeURIComponent(ElementAt(parts, 2)))
    IN  entry(Split(currentCookie, "="))

RECURSIVE cookieStringToMapFrom(_, _, _)
cookieStringToMapFrom(segments, i, cookies) ==
    IF i > Len(segments) THEN cookies
    ELSE cookieStringToMapFrom(segments, i + 1,
                               cookieStringToMapEntry(cookies, segments[i]))

\* Variant of cookieStringToMap that takes "," for the separator of segments.
cookieStringToMapSplitOnComma(cookieString) ==
    IF cookieString.type = "undefined"
    THEN [threw |-> TRUE, value |-> EmptyMap]
    ELSE IF Len(cookieString.value) < 1
    THEN [threw |-> FALSE, value |-> EmptyMap]
    ELSE [threw |-> FALSE,
          value |-> cookieStringToMapFrom(Split(cookieString.value, ","), 1, EmptyMap)]

\* cookieStringToMap of a string or of undefined.  With undefined,
\* cookieString?.length < 1 compares undefined with 1 and is false, and
\* cookieString.split raises a TypeError: [threw |-> TRUE].
cookieStringToMap(cookieString) ==
    IF cookieString.type = "undefined"
    THEN [threw |-> TRUE, value |-> EmptyMap]
    ELSE IF Len(cookieString.value) < 1
    THEN [threw |-> FALSE, value |-> EmptyMap]
    ELSE [threw |-> FALSE,
          value |-> cookieStringToMapFrom(Split(cookieString.value, ";"), 1, EmptyMap)]

(***************************************************************************)
(* Request and response                                                    *)
(***************************************************************************)

\* The injected request: absent (null), or present with a Cookie header
\* that is a string or undefined.
NoRequest == [present |-> FALSE, cookie |-> UndefinedString]
Request(cookie) == [present |-> TRUE, cookie |-> cookie]

\* The Set-Cookie header of the response: undefined, one string, or an
\* array of strings.
NoHeader == [type |-> "undefined", value |-> << >>]
StringHeader(s) == [type |-> "string", value |-> << s >>]
ArrayHeader(a) == [type |-> "array", value |-> a]

NoResponse == [present |-> FALSE, setCookie |-> NoHeader]
Response(h) == [present |-> TRUE, setCookie |-> h]

(***************************************************************************)
(* Reconciler                                                              *)
(***************************************************************************)

\* this.request?.headers.cookie || ''
requestCookieHeader(req) ==
    IF req.present /\ Truthy(req.cookie) THEN req.cookie.value ELSE ""

\* (this.response?.get('Set-Cookie') || []), a bare string wrapped in an array.
responseCookies(res) ==
    IF ~res.present \/ res.setCookie.type = "undefined" THEN << >>
    ELSE IF res.setCookie.type = "string"
    THEN (IF res.setCookie.value[1] = "" THEN << >> ELSE res.setCookie.value)
    ELSE res.setCookie.value

\* let [cookieName, cookieValue] = currentCookie.split(';')[0].split('=')
responseCookieName(currentCookie) ==
    Split(Split(currentCookie, ";")[1], "=")[1]

responseCookieValue(currentCookie) ==
    ElementAt(Split(Split(currentCookie, ";")[1], "="), 2)

\* Variant of mergeResponseCookie that merges an entry of any name.
mergeResponseCookieOfAnyName(allCookies, currentCookie) ==
    LET merge(cookieName, cookieValue) ==
            MapSet(allCookies, safeDecodeURIComponent(Str(cookieName)),
                   safeDecodeURIComponent(cookieValue))
    IN  merge(responseCookieName(currentCookie),
              responseCookieValue(currentCookie))

\* The callback of responseCookies.forEach: merge one entry.
mergeResponseCookie(allCookies, currentCookie) ==
    LET merge(cookieName, cookieValue) ==
            IF cookieName # ""
            THEN MapSet(allCookies, safeDecodeURIComponent(Str(cookieName)),
                        safeDecodeURIComponent(cookieValue))
            ELSE allCookies
    IN  merge(responseCookieName(currentCookie),
              responseCookieValue(currentCookie))

RECURSIVE mergeResponseCookies(_, _, _)
mergeResponseCookies(entries, i, allCookies) ==
    IF i > Len(entries) THEN allCookies
    ELSE mergeResponseCookies(entries, i + 1,
                              mergeResponseCookie(allCookies, entries[i]))

\* Variant of getCombinedCookies that reads this.request.headers.cookie and
\* this.response.get without the optional chaining.
getCombinedCookiesUnguarded(isBrowser, docCookie, req, res) ==
    IF isBrowser THEN cookieStringToMap(Str(docCookie))
    ELSE IF ~req.present \/ ~res.present
    THEN [threw |-> TRUE, value |-> EmptyMap]
    ELSE LET merged(requestCookies) ==
                 [threw |-> requestCookies.threw,
                  value |-> mergeResponseCookies(responseCookies(res), 1,
                                                 requestCookies.value)]
         IN  merged(cookieStringToMap(Str(requestCookieHeader(req))))

\* getCombinedCookies: [threw, value] like cookieStringToMap.
getCombinedCookies(isBrowser, docCookie, req, res) ==
    IF isBrowser THEN cookieStringToMap(Str(docCookie))
    ELSE LET merged(requestCookies) ==
                 [threw |-> requestCookies.threw,
                  value |-> mergeResponseCookies(responseCookies(res), 1,
                                                 requestCookies.value)]
         IN  merged(cookieStringToMap(Str(requestCookieHeader(req))))


(***************************************************************************)
(* Dates: milliseconds since the epoch and their HTTP date text            *)
(***************************************************************************)

MsPerDay == 1000 * 60 * 60 * 24

DayNames == << "Sun", "Mon", "Tue", "Wed", "Thu", "Fri", "Sat" >>

MonthNames == << "Jan", "Feb", "Mar", "Apr", "May", "Jun",
                 "Jul", "Aug", "Sep", "Oct", "Nov", "Dec" >>

\* The civil date [y, m, d] of a day number counted from 1 January 1970.
CivilFromDays(days) ==
    LET civil(era, yoe, doy, mp) ==
            [y |-> yoe + era * 400 + (IF mp >= 10 THEN 1 ELSE 0),
             m |-> IF mp < 10 THEN mp + 3 ELSE mp - 9,
             d |-> doy - (153 * mp + 2) \div 5 + 1]
        fromDayOfYear(era, yoe, doy) == civil(era, yoe, doy, (5 * doy + 2) \div 153)
        fromYearOfEra(era, doe, yoe) ==
            fromDayOfYear(era, yoe, doe - (365 * yoe + yoe \div 4 - yoe \div 100))
        fromDayOfEra(era, doe) ==
            fromYearOfEra(era, doe,
                          (doe - doe \div 1460 + doe \div 36524 - doe \div 146096)
                              \div 365)
        fromShifted(z) == fromDayOfEra(z \div 146097, z % 146097)
    IN  fromShifted(days + 719468)

\* The day number of a civil date.
DaysFromCivil(y, m, d) ==
    LET fromDayOfEra(era, yoe, doy) ==
            era * 146097 + yoe * 365 + yoe \div 4 - yoe \div 100 + doy - 719468
        fromYear(yy) ==
            fromDayOfEra(yy \div 400, yy % 400,
                         (153 * (IF m > 2 THEN m - 3 ELSE m + 9) + 2) \div 5 + d - 1)
    IN  fromYear(IF m <= 2 THEN y - 1 ELSE y)

Pad2(n) == IF n < 10 THEN "0" \o ToString(n) ELSE ToString(n)

Pad4(n) ==
    IF n < 10 THEN "000" \o ToString(n)
    ELSE IF n < 100 THEN "00" \o ToString(n)
    ELSE IF n < 1000 THEN "0" \o ToString(n)
    ELSE ToString(n)

\* Date.prototype.toUTCString: "Thu, 01 Jan 1970 00:00:01 GMT", the
\* milliseconds dropped.
toUTCString(t) ==
    LET text(days, secs, c) ==
            DayNames[((days + 4) % 7) + 1] \o ", " \o Pad2(c.d) \o " "
                \o MonthNames[c.m] \o " " \o Pad4(c.y) \o " "
                \o Pad2(secs \div 3600) \o ":" \o Pad2((secs % 3600) \div 60)
                \o ":" \o Pad2(secs % 60) \o " GMT"
    IN  text(t \div MsPerDay, (t % MsPerDay) \div 1000,
             CivilFromDays(t \div MsPerDay))

RECURSIVE ParseNat(_)
ParseNat(s) ==
    IF s = "" THEN 0
    ELSE 10 * ParseNat(SubSeq(s, 1, Len(s) - 1))
             + (IndexOf("0123456789", CharAt(s, Len(s))) - 1)

\* The point in time an HTTP date text of the form above names.
parseUTCString(s) ==
    LET d == ParseNat(SubSeq(s, 6, 7))
        m == CHOOSE i \in 1..12 : MonthNames[i] = SubSeq(s, 9, 11)
        y == ParseNat(SubSeq(s, 13, 16))
    IN  DaysFromCivil(y, m, d) * MsPerDay
            + 1000 * (3600 * ParseNat(SubSeq(s, 18, 19))
                      + 60 * ParseNat(SubSeq(s, 21, 22))
                      + ParseNat(SubSeq(s, 24, 25)))


(***************************************************************************)
(* Cookie attributes and the two sink encoders                             *)
(***************************************************************************)

\* An attributes object; a field that is not set is undefined.
Options(expires, path, domain, secure, sameSite, partitioned) ==
    [expires |-> expires, path |-> path, domain |-> domain,
     secure |-> secure, sameSite |-> sameSite, partitioned |-> partitioned]

\* The object {} that stands in for omitted options.
EmptyOptions ==
    Options(UndefinedTime, UndefinedString, UndefinedString,
            UndefinedBool, UndefinedString, UndefinedBool)

\* new Date(new Date().getTime() + options.expires * 1000 * 60 * 60 * 24)
expiresDate(expires, now) ==
    IF expires.type = "number" THEN now + expires.value * 1000 * 60 * 60 * 24
    ELSE expires.value

\* setClientCookie: the string assigned to document.cookie and the options
\* object as the call leaves it.  An expires that is neither a number nor
\* a Date has no toUTCString: [threw |-> TRUE].
setClientCookie(name, value, options, now) ==
    LET \* the options with secure forced and sameSite defaulted
        written(o) ==
            [threw |-> FALSE,
             cookieString |->
                encodeURIComponent(name) \o "=" \o encodeURIComponent(value) \o ";"
                    \o (IF Truthy(options.expires)
                        THEN "expires=" \o toUTCString(expiresDate(options.expires, now))
                                 \o ";"
                        ELSE "")
                    \o (IF Truthy(options.path)
                        THEN "path=" \o options.path.value \o ";" ELSE "")
                    \o (IF Truthy(options.domain)
                        THEN "domain=" \o options.domain.value \o ";" ELSE "")
                    \o (IF Truthy(o.secure) THEN "secure;" ELSE "")
                    \o "sameSite=" \o o.sameSite.value \o ";"
                    \o (IF Truthy(o.partitioned) THEN "Partitioned;" ELSE ""),
             options |-> o]
        defaulted(o) ==
            written(IF ~Truthy(o.sameSite)
                    THEN [o EXCEPT !.sameSite = Str("Lax")] ELSE o)
    IN  IF options.expires.type = "object"
        THEN [threw |-> TRUE, cookieString |-> "", options |-> options]
        ELSE defaulted(IF options.secure = Bool(FALSE)
                          /\ options.sameSite = Str("None")
                       THEN [options EXCEPT !.secure = Bool(TRUE)] ELSE options)

\* setServerCookie: the expressOptions record handed to response.cookie; a
\* field the code does not assign is undefined.
setServerCookie(name, value, options, now) ==
    [expires |->
        IF Truthy(options.expires)
        THEN (IF options.expires.type = "number"
              THEN DateOf(expiresDate(options.expires, now))
              ELSE options.expires)
        ELSE UndefinedTime,
     path |-> IF Truthy(options.path) THEN options.path ELSE UndefinedString,
     domain |-> IF Truthy(options.domain) THEN options.domain ELSE UndefinedString,
     secure |-> IF Truthy(options.secure) THEN options.secure ELSE UndefinedBool,
     sameSite |->
        IF Truthy(options.sameSite)
        THEN Str(toLowerCase(options.sameSite.value)) ELSE UndefinedString,
     partitioned |->
        IF Truthy(options.partitioned) THEN options.partitioned ELSE UndefinedBool]

(***************************************************************************)
(* The two sinks, owned by the platform                                    *)
(***************************************************************************)

\* The cookies a document cookie string lists, as [name, value] records;
\* a segment without "=" is a cookie with an empty name.
documentCookieEntry(segment) ==
    LET pair(t, p) ==
            IF p = 0 THEN [name |-> "", value |-> t]
            ELSE [name |-> SubSeq(t, 1, p - 1), value |-> SubSeq(t, p + 1, Len(t))]
    IN  pair(StripLeadingSpaces(segment), IndexOf(StripLeadingSpaces(segment), "="))

documentCookieEntries(docCookie) ==
    LET entries(segments) ==
            [i \in 1..Len(segments) |-> documentCookieEntry(segments[i])]
    IN  IF docCookie = "" THEN << >> ELSE entries(Split(docCookie, ";"))

RECURSIVE documentCookieJoin(_)
documentCookieJoin(entries) ==
    LET text(e) == IF e.name = "" THEN e.value ELSE e.name \o "=" \o e.value
    IN  IF entries = << >> THEN ""
        ELSE IF Len(entries) = 1 THEN text(Head(entries))
        ELSE text(Head(entries)) \o "; " \o documentCookieJoin(Tail(entries))

\* The expiry an assigned cookie string carries: the last expires
\* attribute, or undefined for a session cookie.
RECURSIVE cookieStringExpires(_, _)
cookieStringExpires(segments, i) ==
    LET attribute(a) ==
            IF toLowerCase(a.name) = "expires"
            THEN DateOf(parseUTCString(a.value))
            ELSE cookieStringExpires(segments, i - 1)
    IN  IF i < 2 THEN UndefinedTime
        ELSE attribute(documentCookieEntry(segments[i]))

\* document.cookie = cookieString: the store drops the named cookie when
\* the expiry is not in the future, and otherwise replaces it in place or
\* adds it last.  The result is the cookie string the document then reads.
\* The store holds one cookie per name, and the path, domain and secure
\* attributes of every cookie match the document, so that the document
\* lists every cookie the store holds.
documentCookieAssign(docCookie, cookieString, now) ==
    LET store(old, new, expires) ==
            IF new.name = "" /\ new.value = "" THEN docCookie
            ELSE IF expires.type = "Date" /\ expires.value <= now
            THEN documentCookieJoin(SelectSeq(old, LAMBDA e : e.name # new.name))
            ELSE IF \E i \in 1..Len(old) : old[i].name = new.name
            THEN documentCookieJoin([i \in 1..Len(old) |->
                                        IF old[i].name = new.name THEN new
                                        ELSE old[i]])
            ELSE documentCookieJoin(Append(old, new))
        assign(segments) ==
            store(documentCookieEntries(docCookie),
                  documentCookieEntry(segments[1]),
                  cookieStringExpires(segments, Len(segments)))
    IN  assign(Split(cookieString, ";"))

\* The Set-Cookie text response.cookie(name, value, options) produces.
responseCookieText(name, value, expressOptions) ==
    name \o "=" \o encodeURIComponent(value)
        \o (IF expressOptions.domain.type = "undefined" THEN ""
            ELSE "; Domain=" \o expressOptions.domain.value)
        \o "; Path="
        \o (IF expressOptions.path.type = "undefined" THEN "/"
            ELSE expressOptions.path.value)
        \o (IF expressOptions.expires.type = "undefined" THEN ""
            ELSE "; Expires=" \o toUTCString(expressOptions.expires.value))
        \o (IF Truthy(expressOptions.secure) THEN "; Secure" ELSE "")
        \o (IF Truthy(expressOptions.partitioned) THEN "; Partitioned" ELSE "")
        \o (CASE expressOptions.sameSite = Str("lax") -> "; SameSite=Lax"
              [] expressOptions.sameSite = Str("strict") -> "; SameSite=Strict"
              [] expressOptions.sameSite = Str("none") -> "; SameSite=None"
              [] OTHER -> "")

\* Variant of responseCookie that sets the Set-Cookie header to the new
\* entry alone.
responseCookieReplacing(res, name, value, expressOptions) ==
    IF ~res.present THEN res
    ELSE Response(StringHeader(responseCookieText(name, value, expressOptions)))

\* this.response?.cookie(name, value, expressOptions): nothing happens
\* without a response; otherwise the text is appended to the Set-Cookie
\* header, which becomes a string (first entry) or an array.
responseCookie(res, name, value, expressOptions) ==
    LET queued(prev, text) ==
            IF prev.type = "undefined"
               \/ (prev.type = "string" /\ prev.value[1] = "")
            THEN Response(StringHeader(text))
            ELSE Response(ArrayHeader(Append(prev.value, text)))
    IN  IF ~res.present THEN res
        ELSE queued(res.setCookie, responseCookieText(name, value, expressOptions))


(***************************************************************************)
(* Accessor                                                                *)
(***************************************************************************)

\* What the service works on: the platform flag, the document cookie
\* string, the request, the response and the current time.
World(isBrowser, cookie, req, res, t) ==
    [documentIsAccessible |-> isBrowser, cookie |-> cookie,
     request |-> req, response |-> res, now |-> t]

combinedCookies(w) ==
    getCombinedCookies(w.documentIsAccessible, w.cookie, w.request, w.response).value

\* Variant of check that looks at the cookies of the request only.
checkRequestOnly(w, name) ==
    IF w.documentIsAccessible THEN MapHas(combinedCookies(w), name)
    ELSE MapHas(cookieStringToMap(Str(requestCookieHeader(w.request))).value, name)

\* check(name): allCookies.has(name)
check(w, name) == MapHas(combinedCookies(w), name)

\* Variant of get without the fallback to the empty string.
getWithoutFallback(w, name) == ToJSString(MapGet(combinedCookies(w), name))

\* get(name): allCookies.get(name) || ''
get(w, name) ==
    LET orEmpty(v) == IF Truthy(v) THEN v.value ELSE ""
    IN  orEmpty(MapGet(combinedCookies(w), name))

\* Is the number written by the digits of a below the number written by
\* the digits of b?  Neither text has a leading zero.
RECURSIVE DigitsBelow(_, _)
DigitsBelow(a, b) ==
    IF Len(a) # Len(b) THEN Len(a) < Len(b)
    ELSE IF a = "" THEN FALSE
    ELSE IF SubSeq(a, 1, 1) # SubSeq(b, 1, 1)
    THEN IndexOf("0123456789", SubSeq(a, 1, 1))
             < IndexOf("0123456789", SubSeq(b, 1, 1))
    ELSE DigitsBelow(Tail(a), Tail(b))

\* A property key that is an array index: the canonical text of an integer
\* from 0 to 2^32 - 2.
IsArrayIndex(k) ==
    /\ k # ""
    /\ \A i \in 1..Len(k) : IndexOf("0123456789", CharAt(k, i)) # 0
    /\ (Len(k) > 1 => SubSeq(k, 1, 1) # "0")
    /\ ~DigitsBelow("4294967294", k)

\* The properties of a plain object in property order: array indices
\* ascending, then the other keys in the order of their creation, which is
\* the order of the entries of m.
PropertyOrder(m) ==
    SortSeq(SelectSeq(m, LAMBDA e : IsArrayIndex(e[1])),
            LAMBDA x, y : DigitsBelow(x[1], y[1]))
        \o SelectSeq(m, LAMBDA e : ~IsArrayIndex(e[1]))

\* Object.fromEntries: the entries as the own properties of a plain object.
ObjectFromEntries(m) == PropertyOrder(m)

\* getAll(): Object.fromEntries(allCookies)
getAll(w) == ObjectFromEntries(combinedCookies(w))

ObjectKeys(o) == { o[i][1] : i \in 1..Len(o) }

\* The third argument of set: an expiry (undefined, a number of days or a
\* Date) in the positional form, or an attributes object.
PositionalArg(expires) ==
    [type |-> expires.type, value |-> expires.value, options |-> EmptyOptions]

ObjectArg(o) == [type |-> "object", value |-> 0, options |-> o]

\* One hand-over to a sink: the string assigned to document.cookie, or
\* the arguments of response.cookie.
NoExpressOptions ==
    [expires |-> UndefinedTime, path |-> UndefinedString,
     domain |-> UndefinedString, secure |-> UndefinedBool,
     sameSite |-> UndefinedString, partitioned |-> UndefinedBool]

DocumentWrite(cookieString) ==
    [sink |-> "document", cookieString |-> cookieString, name |-> "",
     value |-> "", expressOptions |-> NoExpressOptions]

ResponseWrite(name, value, expressOptions) ==
    [sink |-> "response", cookieString |-> "", name |-> name,
     value |-> value, expressOptions |-> expressOptions]

\* Variant of isLegacyCall that looks at the third argument only.
isLegacyCallByExpiresOnly(expiresOrOptions, path, domain, secure, sameSite) ==
    \/ expiresOrOptions.type = "number"
    \/ expiresOrOptions.type = "Date"

\* Does the call take the legacy positional branch of set?
isLegacyCall(expiresOrOptions, path, domain, secure, sameSite) ==
    \/ expiresOrOptions.type = "number"
    \/ expiresOrOptions.type = "Date"
    \/ Truthy(path)
    \/ Truthy(domain)
    \/ Truthy(secure)
    \/ Truthy(sameSite)

\* set: the world after the call, the hand-overs to the sink, the options
\* object as the encoder left it, the number of nested calls of set, and
\* whether the call raised an error.
RECURSIVE set(_, _, _, _, _, _, _, _, _)
set(w, name, value, expiresOrOptions, path, domain, secure, sameSite, partitioned) ==
    IF isLegacyCall(expiresOrOptions, path, domain, secure, sameSite)
    THEN LET optionsBody ==
                 Options([type |-> expiresOrOptions.type,
                          value |-> expiresOrOptions.value],
                         path, domain, secure,
                         IF Truthy(sameSite) THEN sameSite ELSE Str("Lax"),
                         partitioned)
         IN  [set(w, name, value, ObjectArg(optionsBody), UndefinedString,
                  UndefinedString, UndefinedBool, UndefinedString,
                  UndefinedBool) EXCEPT !.depth = @ + 1]
    ELSE LET \* this.document.cookie = cookieString
             client(c) ==
                 IF c.threw
                 THEN [world |-> w, writes |-> << >>, options |-> c.options,
                       depth |-> 1, threw |-> TRUE]
                 ELSE [world |-> [w EXCEPT !.cookie =
                                     documentCookieAssign(w.cookie, c.cookieString,
                                                          w.now)],
                       writes |-> << DocumentWrite(c.cookieString) >>,
                       options |-> c.options, depth |-> 1, threw |-> FALSE]
             \* this.response?.cookie(name, value, expressOptions)
             server(options, e) ==
                 [world |-> [w EXCEPT !.response =
                                responseCookie(w.response, name, value, e)],
                  writes |-> IF w.response.present
                             THEN << ResponseWrite(name, value, e) >>
                             ELSE << >>,
                  options |-> options, depth |-> 1, threw |-> FALSE]
             sink(options) ==
                 IF w.documentIsAccessible
                 THEN client(setClientCookie(name, value, options, w.now))
                 ELSE server(options, setServerCookie(name, value, options, w.now))
         IN  sink(IF expiresOrOptions.type = "object"
                  THEN expiresOrOptions.options ELSE EmptyOptions)

\* delete(name, path, domain, secure, sameSite = 'Lax')
delete(w, name, path, domain, secure, sameSite) ==
    set(w, name, "",
        ObjectArg(Options(DateOf(1000), path, domain, secure,
                          IF sameSite.type = "undefined" THEN Str("Lax")
                          ELSE sameSite,
                          UndefinedBool)),
        UndefinedString, UndefinedString, UndefinedBool, UndefinedString,
        UndefinedBool)

\* The loop of deleteAll over the property names of the snapshot, in
\* property order.  The test cookies.hasOwnProperty(cookieName) looks the
\* method up on the snapshot itself: a cookie named hasOwnProperty is an own
\* property holding a string, and calling it raises a TypeError in the
\* first pass of the loop.
RECURSIVE deleteEach(_, _, _, _, _, _, _)

deleteEach(r, cookies, i, path, domain, secure, sameSite) ==
    LET after(d) ==
            [world |-> d.world, writes |-> r.writes \o d.writes,
             options |-> d.options, depth |-> r.depth + d.depth,
             threw |-> d.threw]
    IN  IF i > Len(cookies) \/ r.threw THEN r
        ELSE IF MapHas(cookies, "hasOwnProperty") THEN [r EXCEPT !.threw = TRUE]
        ELSE deleteEach(after(delete(r.world, cookies[i][1], path, domain,
                                     secure, sameSite)),
                        cookies, i + 1, path, domain, secure, sameSite)

\* deleteAll(path, domain, secure, sameSite = 'Lax')
deleteAll(w, path, domain, secure, sameSite) ==
    deleteEach([world |-> w, writes |-> << >>, options |-> EmptyOptions,
                depth |-> 0, threw |-> FALSE],
               getAll(w), 1, path, domain, secure, sameSite)


(***************************************************************************)
(* The 18.x build: set with one normalisation for both sinks, the          *)
(* regular-expression check, getAll by assignment, delete and deleteAll    *)
(***************************************************************************)

\* The attributes object after the normalisation (secure forced, sameSite
\* defaulted) and the outputOptions record built from it; a field the code
\* does not assign is undefined.
outputOptionsOf(options, now) ==
    LET output(o) ==
            [options |-> o,
             outputOptions |->
                [expires |->
                    IF Truthy(o.expires)
                    THEN (IF o.expires.type = "number"
                          THEN DateOf(now + o.expires.value * 1000 * 60 * 60 * 24)
                          ELSE o.expires)
                    ELSE UndefinedTime,
                 path |-> IF Truthy(o.path) THEN o.path ELSE UndefinedString,
                 domain |-> IF Truthy(o.domain) THEN o.domain ELSE UndefinedString,
                 secure |-> IF Truthy(o.secure) THEN o.secure ELSE UndefinedBool,
                 sameSite |-> Str(toLowerCase(o.sameSite.value)),
                 partitioned |->
                    IF Truthy(o.partitioned) THEN o.partitioned ELSE UndefinedBool]]
        defaulted(o) ==
            output(IF ~Truthy(o.sameSite)
                   THEN [o EXCEPT !.sameSite = Str("Lax")] ELSE o)
    IN  defaulted(IF options.secure = Bool(FALSE) /\ options.sameSite = Str("None")
                  THEN [options EXCEPT !.secure = Bool(TRUE)] ELSE options)

\* The client cookie string: name=value; and one clause per key of
\* outputOptions, in the order of assignment, named by the key.
outputOptionsCookieString(name, value, outputOptions) ==
    encodeURIComponent(name) \o "=" \o encodeURIComponent(value) \o ";"
        \o (IF outputOptions.expires.type = "Date"
            THEN "expires=" \o toUTCString(outputOptions.expires.value) \o ";"
            ELSE "")
        \o (IF outputOptions.path.type = "string"
            THEN "path=" \o outputOptions.path.value \o ";" ELSE "")
        \o (IF outputOptions.domain.type = "string"
            THEN "domain=" \o outputOptions.domain.value \o ";" ELSE "")
        \o (IF outputOptions.secure = Bool(TRUE) THEN "secure;" ELSE "")
        \o "sameSite=" \o outputOptions.sameSite.value \o ";"
        \o (IF outputOptions.partitioned = Bool(TRUE) THEN "partitioned;" ELSE "")

\* set of the 18.x build, with the outcome record of set.
RECURSIVE setWithOutputOptions(_, _, _, _, _, _, _, _, _)
setWithOutputOptions(w, name, value, expiresOrOptions, path, domain, secure, sameSite, partitioned) ==
    IF isLegacyCall(expiresOrOptions, path, domain, secure, sameSite)
    THEN LET optionsBody ==
                 Options([type |-> expiresOrOptions.type,
                          value |-> expiresOrOptions.value],
                         path, domain, secure,
                         IF Truthy(sameSite) THEN sameSite ELSE Str("Lax"),
                         partitioned)
         IN  [setWithOutputOptions(w, name, value, ObjectArg(optionsBody),
                                   UndefinedString, UndefinedString,
                                   UndefinedBool, UndefinedString, UndefinedBool)
                 EXCEPT !.depth = @ + 1]
    ELSE LET client(n, cookieString) ==
                 [world |-> [w EXCEPT !.cookie =
                                documentCookieAssign(w.cookie, cookieString, w.now)],
                  writes |-> << DocumentWrite(cookieString) >>,
                  options |-> n.options, depth |-> 1, threw |-> FALSE]
             server(n) ==
                 [world |-> [w EXCEPT !.response =
                                responseCookie(w.response, name, value,
                                               n.outputOptions)],
                  writes |-> IF w.response.present
                             THEN << ResponseWrite(name, value, n.outputOptions) >>
                             ELSE << >>,
                  options |-> n.options, depth |-> 1, threw |-> FALSE]
             sink(n) ==
                 IF w.documentIsAccessible
                 THEN client(n, outputOptionsCookieString(name, value,
                                                          n.outputOptions))
                 ELSE server(n)
         IN  sink(outputOptionsOf(IF expiresOrOptions.type = "object"
                                  THEN expiresOrOptions.options ELSE EmptyOptions,
                                  w.now))

StartsWithAt(s, i, prefix) ==
    /\ i >= 1
    /\ i + Len(prefix) - 1 <= Len(s)
    /\ SubSeq(s, i, i + Len(prefix) - 1) = prefix

\* ---- new RegExp(pattern, 'g') and RegExp.prototype.test ----
\* The pattern language of ECMAScript without the u flag, with the legacy
\* syntax of web browsers (ECMA-262 Annex B), as far as the pattern of
\* getCookieRegExp can hold it.  The replace at line 28 puts a backslash
\* before every one of [ ] { } ( ) | = ; + ? , . * ^ $ of the name and leaves
\* the backslash alone, so a name's own backslashes decide what the pattern
\* says: after an even run of them an escaped character stands for itself,
\* after an odd run it stands bare, directly behind an escaped backslash.
\* Hence a quantifier of the name only ever follows a literal backslash: the
\* name brings no quantified group or back reference, no braced quantifier
\* and no "(?", and PatternStep is undefined on those.  A lazy quantifier
\* repeats as often as a greedy one may; only the order of the attempts
\* differs, which test does not show.
\*
\* A set of characters is kept as its members in the model's alphabet, the
\* only characters a tested string can hold: a matcher of one character is
\* the set chars, or (neg) every character outside it.

\* the characters with the codes lo to hi
CodeRange(lo, hi) ==
    LET inAlphabet(b) ==
            \/ b \in {9, 10, 12, 13}
            \/ b >= 32 /\ b <= 95
            \/ b >= 97 /\ b <= 126
            \/ b >= 160 /\ b <= 255
    IN  { FromCharCode(b) :
            b \in { b \in lo..(IF hi > 255 THEN 255 ELSE hi) : inAlphabet(b) } }

\* \d \D \w \W \s \S; \s is WhiteSpace and LineTerminator
CharacterClassEscape(e) ==
    LET chars(s) == { CharAt(s, i) : i \in 1..Len(s) }
        digit == chars("0123456789")
        word == chars("ABCDEFGHIJKLMNOPQRSTUVWXYZabcdefghijklmnopqrstuvwxyz0123456789_")
        space == {"\t", "\n", "\f", "\r", " ", FromCharCode(160)}
    IN  CASE e = "d" -> [neg |-> FALSE, chars |-> digit]
          [] e = "D" -> [neg |-> TRUE, chars |-> digit]
          [] e = "w" -> [neg |-> FALSE, chars |-> word]
          [] e = "W" -> [neg |-> TRUE, chars |-> word]
          [] e = "s" -> [neg |-> FALSE, chars |-> space]
          [] e = "S" -> [neg |-> TRUE, chars |-> space]

\* CharacterEscape: the backslash at i, not the last character of p, read as
\* one character: its code and the position after the escape.  \c without a
\* control letter is the backslash itself, and the c is read again.  An octal
\* escape (LegacyOctalEscapeSequence) has up to three digits and a value up
\* to 255.
CharacterEscape(p, i, inClass) ==
    LET e == CharAt(p, i + 1)
        has(j, s) == j <= Len(p) /\ IndexOf(s, CharAt(p, j)) # 0
        octal(j) == has(j, "01234567")
        v(j) == IndexOf("01234567", CharAt(p, j)) - 1
        h(j) == HexValue(CharAt(p, j))
        control(j) ==
            \/ has(j, "ABCDEFGHIJKLMNOPQRSTUVWXYZabcdefghijklmnopqrstuvwxyz")
            \/ inClass /\ has(j, "0123456789_")
    IN  CASE e = "t" -> [code |-> 9, next |-> i + 2]
          [] e = "n" -> [code |-> 10, next |-> i + 2]
          [] e = "v" -> [code |-> 11, next |-> i + 2]
          [] e = "f" -> [code |-> 12, next |-> i + 2]
          [] e = "r" -> [code |-> 13, next |-> i + 2]
          [] e = "c" ->
                IF control(i + 2)
                THEN [code |-> CharCode(CharAt(p, i + 2)) % 32, next |-> i + 3]
                ELSE [code |-> 92, next |-> i + 1]
          [] e = "x" ->
                IF \A j \in (i + 2)..(i + 3) : has(j, "0123456789ABCDEFabcdef")
                THEN [code |-> 16 * h(i + 2) + h(i + 3), next |-> i + 4]
                ELSE [code |-> 120, next |-> i + 2]
          [] e = "u" ->
                IF \A j \in (i + 2)..(i + 5) : has(j, "0123456789ABCDEFabcdef")
                THEN [code |-> 4096 * h(i + 2) + 256 * h(i + 3) + 16 * h(i + 4) + h(i + 5),
                      next |-> i + 6]
                ELSE [code |-> 117, next |-> i + 2]
          [] octal(i + 1) /\ ~octal(i + 2) -> [code |-> v(i + 1), next |-> i + 2]
          [] octal(i + 1) /\ (v(i + 1) >= 4 \/ ~octal(i + 3)) ->
                [code |-> 8 * v(i + 1) + v(i + 2), next |-> i + 3]
          [] octal(i + 1) ->
                [code |-> 64 * v(i + 1) + 8 * v(i + 2) + v(i + 3), next |-> i + 4]
          [] OTHER -> [code |-> CharCode(e), next |-> i + 2]

\* One ClassAtom or range of ClassRanges, from st.i: its characters join
\* st.chars; the "]" closes the class.  A ClassAtom is a set of characters
\* (\d and the like) or one character, by its code.  A class that does not
\* end, and a range whose ends are out of order, are SyntaxErrors; a range
\* with a set for an end is the two ends and the "-".
ClassStep(p, st) ==
    LET dangling(j) == j > Len(p) \/ (CharAt(p, j) = "\\" /\ j = Len(p))
        failed == [st EXCEPT !.threw = TRUE]
        add(chars, j) == [st EXCEPT !.chars = @ \cup chars, !.i = j]
        one(x) == [isSet |-> FALSE, chars |-> CodeRange(x.code, x.code),
                   code |-> x.code, next |-> x.next]
        all(m, j) == [isSet |-> TRUE,
                      chars |-> IF m.neg THEN CodeRange(0, 255) \ m.chars ELSE m.chars,
                      code |-> 0, next |-> j]
        classAtom(j) ==
            IF CharAt(p, j) # "\\"
            THEN [isSet |-> FALSE, chars |-> {CharAt(p, j)},
                  code |-> CharCode(CharAt(p, j)), next |-> j + 1]
            ELSE IF CharAt(p, j + 1) \in {"d", "D", "w", "W", "s", "S"}
            THEN all(CharacterClassEscape(CharAt(p, j + 1)), j + 2)
            ELSE IF CharAt(p, j + 1) = "b" THEN one([code |-> 8, next |-> j + 2])
            ELSE one(CharacterEscape(p, j, TRUE))
        range(a, b) ==
            IF a.isSet \/ b.isSet THEN add(a.chars \cup b.chars \cup {"-"}, b.next)
            ELSE IF a.code > b.code THEN failed
            ELSE add(CodeRange(a.code, b.code), b.next)
        atom(a) ==
            IF a.next < Len(p) /\ CharAt(p, a.next) = "-" /\ CharAt(p, a.next + 1) # "]"
            THEN IF dangling(a.next + 1) THEN failed
                 ELSE range(a, classAtom(a.next + 1))
            ELSE add(a.chars, a.next)
    IN  IF st.threw \/ st.closed THEN st
        ELSE IF dangling(st.i) THEN failed
        ELSE IF CharAt(p, st.i) = "]" THEN [st EXCEPT !.closed = TRUE, !.i = @ + 1]
        ELSE atom(classAtom(st.i))

\* ClassRanges from i up to the closing "]": the characters of the class and
\* the position after it, or a SyntaxError.  steps(n, st) is n steps, one
\* after the other.
ClassRanges(p, i) ==
    LET RECURSIVE steps(_, _)
        steps(n, st) ==
            IF st.threw \/ st.closed \/ n = 0 THEN st
            ELSE IF n = 1 THEN ClassStep(p, st)
            ELSE steps(n - (n \div 2), steps(n \div 2, st))
        result(st) == [threw |-> st.threw, value |-> st.chars, next |-> st.i]
    IN  result(steps(Len(p) + 2 - i,
                     [i |-> i, chars |-> {}, closed |-> FALSE, threw |-> FALSE]))

\* One term of the pattern, from st.i: it joins st.terms, the compiled
\* pattern.  Of a term, t is its kind, d the depth of groups it lies in, g the
\* number of its capturing group (0 for "(?:"), m and q the matcher and the
\* quantifier of a character.  st.open holds the numbers of the groups not
\* yet closed, innermost first, and st.g counts the capturing groups so far.
\* A DecimalEscape is a back reference when its number (digits) is at most
\* the number of capturing groups of the whole pattern; otherwise (lit) an
\* octal escape or the digit 8 or 9 itself, followed by the digits left over.
\* SyntaxError: a backslash that ends the pattern, a class that does not end,
\* a ")" that closes nothing, a quantifier with nothing to repeat.
PatternStep(p, st) ==
    LET i == st.i
        c == CharAt(p, st.i)
        d == Len(st.open)
        last == st.terms[Len(st.terms)]
        failed == [st EXCEPT !.threw = TRUE]
        term(t) ==
            [t |-> t, d |-> d, g |-> 0, m |-> [neg |-> FALSE, chars |-> {}], q |-> "1",
             digits |-> "", lit |-> << >>]
        then(j, tm) == [st EXCEPT !.i = j, !.terms = Append(@, tm)]
        digitsEnd(j) ==
            LET stops == { k \in j..Len(p) : IndexOf("0123456789", CharAt(p, k)) = 0 }
            IN  IF stops = {} THEN Len(p) ELSE (CHOOSE k \in stops : \A n \in stops : k <= n) - 1
        closes(j) == j <= Len(p) /\ CharAt(p, j) = "}"
        upTo(j) == closes(j) \/ (digitsEnd(j) >= j /\ closes(digitsEnd(j) + 1))
        from(j) == closes(j) \/ (j <= Len(p) /\ CharAt(p, j) = "," /\ upTo(j + 1))
        bracedQuantifier == digitsEnd(i + 1) > i /\ from(digitsEnd(i + 1) + 1)
        quantifier(j) ==
            IF j <= Len(p) /\ CharAt(p, j) \in {"*", "+", "?"} THEN CharAt(p, j) ELSE "1"
        after(j) ==
            IF quantifier(j) = "1" THEN j
            ELSE IF j < Len(p) /\ CharAt(p, j + 1) = "?" THEN j + 2
            ELSE j + 1
        atom(m, j) == then(after(j), [term("char") EXCEPT !.m = m, !.q = quantifier(j)])
        escaped(x) == atom([neg |-> FALSE, chars |-> CodeRange(x.code, x.code)], x.next)
        class(neg, r) ==
            IF r.threw THEN failed
            ELSE atom([neg |-> neg, chars |-> r.value], r.next)
        legacy(x) ==
            << CodeRange(x.code, x.code) >>
                \o [k \in 1..(digitsEnd(i + 1) + 1 - x.next) |-> {CharAt(p, x.next + k - 1)}]
        decimal ==
            [term("decimal") EXCEPT !.digits = SubSeq(p, i + 1, digitsEnd(i + 1)),
                                    !.lit = legacy(CharacterEscape(p, i, FALSE))]
        escape(e) ==
            CASE e \in {"d", "D", "w", "W", "s", "S"} -> atom(CharacterClassEscape(e), i + 2)
              [] e = "b" -> then(i + 2, term("wordBoundary"))
              [] e = "B" -> then(i + 2, term("notWordBoundary"))
              [] e \in {"1", "2", "3", "4", "5", "6", "7", "8", "9"} ->
                    then(digitsEnd(i + 1) + 1, decimal)
              [] OTHER -> escaped(CharacterEscape(p, i, FALSE))
    IN  IF st.threw \/ st.i > Len(p) THEN st
        ELSE CASE c = "\\" -> IF i = Len(p) THEN failed ELSE escape(CharAt(p, i + 1))
               [] c = "[" ->
                     IF i < Len(p) /\ CharAt(p, i + 1) = "^"
                     THEN class(TRUE, ClassRanges(p, i + 2))
                     ELSE class(FALSE, ClassRanges(p, i + 1))
               [] c = "(" /\ i + 2 <= Len(p) /\ SubSeq(p, i + 1, i + 2) = "?:" ->
                     [st EXCEPT !.i = i + 3, !.open = << 0 >> \o @,
                                !.terms = Append(@, [term("open") EXCEPT !.d = d + 1])]
               [] c = "(" /\ (i = Len(p) \/ CharAt(p, i + 1) # "?") ->
                     [st EXCEPT !.i = i + 1, !.open = << st.g + 1 >> \o @, !.g = @ + 1,
                                !.terms = Append(@, [term("open") EXCEPT !.d = d + 1,
                                                                         !.g = st.g + 1])]
               [] c = ")" ->
                     IF st.open = << >> THEN failed
                     ELSE [st EXCEPT !.i = i + 1, !.open = Tail(@),
                                     !.terms = Append(@, [term("close") EXCEPT
                                                              !.g = Head(st.open)])]
               [] c = "|" -> then(i + 1, term("alternative"))
               [] c = "^" -> then(i + 1, term("start"))
               [] c = "$" -> then(i + 1, term("end"))
               [] c = "." -> atom([neg |-> TRUE, chars |-> {"\n", "\r"}], i + 1)
               [] /\ c \in {"*", "+", "?"}
                  /\ (st.terms = << >> \/ last.t \notin {"close", "decimal"}) -> failed
               [] c \notin {"*", "+", "?", "("} /\ ~(c = "{" /\ bracedQuantifier) ->
                     atom([neg |-> FALSE, chars |-> {c}], i + 1)

\* new RegExp(p): the terms of the pattern, or a SyntaxError; a group still
\* open at the end is one too.  steps(n, st) is n steps, one after the other.
RegExpCompile(p) ==
    LET RECURSIVE steps(_, _)
        steps(n, st) ==
            IF st.threw \/ n = 0 THEN st
            ELSE IF n = 1 THEN PatternStep(p, st)
            ELSE steps(n - (n \div 2), steps(n \div 2, st))
        result(st) ==
            IF st.threw \/ st.open # << >> THEN [threw |-> TRUE, value |-> << >>]
            ELSE [threw |-> FALSE, value |-> st.terms]
    IN  result(steps(Len(p), [i |-> 1, open |-> << >>, g |-> 0, terms |-> << >>,
                              threw |-> FALSE]))

\* One step of a match: the term at c.pc against s at c.pos; c.pc = 0 stands
\* before the pattern.  Every way to go on is a state: a group opens into
\* each of its alternatives, an alternative ends at the ")" of its group, a
\* quantifier gives a state for each number of repetitions.  A group has
\* captured no text while it is open or was not entered.
TermStep(terms, s, groups, c) ==
    LET term == terms[c.pc]
        least(S) == CHOOSE i \in S : \A j \in S : i <= j
        groupEnd(k, d) ==
            IF d = 0 THEN Len(terms) + 1
            ELSE least({ j \in (k + 1)..Len(terms) : terms[j].t = "close" /\ terms[j].d = d })
        alternatives(k, d) ==
            {k + 1} \cup { j + 1 : j \in { j \in (k + 1)..(groupEnd(k, d) - 1) :
                                             terms[j].t = "alternative" /\ terms[j].d = d } }
        matches(j) == (CharAt(s, j) \in term.m.chars) # term.m.neg
        run ==
            LET stops == { j \in c.pos..Len(s) : ~matches(j) }
            IN  IF stops = {} THEN Len(s) + 1 - c.pos ELSE least(stops) - c.pos
        one == c.pos <= Len(s) /\ matches(c.pos)
        counts ==
            CASE term.q = "1" -> IF one THEN {1} ELSE {}
              [] term.q = "?" -> IF one THEN {0, 1} ELSE {0}
              [] term.q = "*" -> 0..run
              [] term.q = "+" -> 1..run
        isWord(j) == j >= 1 /\ j <= Len(s) /\ CharAt(s, j) \in CharacterClassEscape("w").chars
        to(pc, pos) == { [c EXCEPT !.pc = pc, !.pos = pos] }
        on(holds) == IF holds THEN to(c.pc + 1, c.pos) ELSE {}
        captured(n) ==
            IF c.captures[n][2] = 0 THEN ""
            ELSE SubSeq(s, c.captures[n][1], c.captures[n][2] - 1)
        text(w) == IF StartsWithAt(s, c.pos, w) THEN to(c.pc + 1, c.pos + Len(w)) ELSE {}
        literal ==
            /\ c.pos + Len(term.lit) - 1 <= Len(s)
            /\ \A j \in 1..Len(term.lit) : CharAt(s, c.pos + j - 1) \in term.lit[j]
    IN  CASE c.pc = 0 -> { [c EXCEPT !.pc = a] : a \in alternatives(0, 0) }
          [] term.t = "char" -> { [c EXCEPT !.pc = c.pc + 1, !.pos = c.pos + n] : n \in counts }
          [] term.t = "start" -> on(c.pos = 1)
          [] term.t = "end" -> on(c.pos = Len(s) + 1)
          [] term.t = "wordBoundary" -> on(isWord(c.pos - 1) # isWord(c.pos))
          [] term.t = "notWordBoundary" -> on(isWord(c.pos - 1) = isWord(c.pos))
          [] term.t = "open" ->
                { [pc |-> a, pos |-> c.pos,
                   captures |-> IF term.g = 0 THEN c.captures
                                ELSE [c.captures EXCEPT ![term.g] = << c.pos, 0 >>]] :
                  a \in alternatives(c.pc, term.d) }
          [] term.t = "alternative" -> to(groupEnd(c.pc, term.d), c.pos)
          [] term.t = "close" ->
                { [pc |-> c.pc + 1, pos |-> c.pos,
                   captures |-> IF term.g = 0 THEN c.captures
                                ELSE [c.captures EXCEPT ![term.g] = << @[1], c.pos >>]] }
          [] term.t = "decimal" ->
                IF Len(term.digits) <= 9 /\ ParseNat(term.digits) <= groups
                THEN text(captured(ParseNat(term.digits)))
                ELSE IF literal THEN to(c.pc + 1, c.pos + Len(term.lit))
                ELSE {}

\* RegExp.prototype.test on a regular expression whose lastIndex is 0: a
\* match that starts at any position of s.  steps(lo, hi, states) is the
\* states of all match attempts after the terms lo to hi have acted, one
\* after the other: every step leads to a later term, so after the last term
\* the states left are the matches.
RegExpTest(terms, s) ==
    LET groups == Cardinality({ k \in 1..Len(terms) :
                                  terms[k].t = "open" /\ terms[k].g > 0 })
        RECURSIVE steps(_, _, _)
        steps(lo, hi, states) ==
            IF lo > hi \/ states = {} THEN states
            ELSE IF lo = hi
            THEN { c \in states : c.pc # lo }
                     \cup UNION { TermStep(terms, s, groups, c) :
                                  c \in { c \in states : c.pc = lo } }
            ELSE steps(((lo + hi) \div 2) + 1, hi, steps(lo, (lo + hi) \div 2, states))
    IN  steps(0, Len(terms),
              { [pc |-> 0, pos |-> i, captures |-> [n \in 1..groups |-> << 0, 0 >>]] :
                i \in 1..(Len(s) + 1) }) # {}

\* name.replace(/([\[\]\{\}\(\)\|\=\;\+\?\,\.\*\^\$])/gi, '\\$1'): every
\* match is one character, which a backslash then precedes.
RECURSIVE escapedName(_)
escapedName(name) ==
    IF Len(name) = 0 THEN ""
    ELSE IF Len(name) = 1
    THEN IF IndexOf("[]{}()|=;+?,.*^$", name) # 0 THEN "\\" \o name ELSE name
    ELSE escapedName(SubSeq(name, 1, Len(name) \div 2))
             \o escapedName(SubSeq(name, (Len(name) \div 2) + 1, Len(name)))

\* getCookieRegExp(name): the regular expression, or the SyntaxError of
\* new RegExp.
getCookieRegExp(name) ==
    RegExpCompile("(?:^" \o escapedName(name) \o "|;\\s*" \o escapedName(name)
                      \o ")=(.*?)(?:;|$)")

\* getCookieRegExp(name).test(s)
getCookieRegExpTest(name, s) ==
    LET test(regExp) ==
            IF regExp.threw THEN [threw |-> TRUE, value |-> FALSE]
            ELSE [threw |-> FALSE, value |-> RegExpTest(regExp.value, s)]
    IN  test(getCookieRegExp(name))

\* check(name) of the 18.x build: the regular expression on the client,
\* the reconciled map on the server.  An encoded name holds no backslash, so
\* its regular expression is always made.
checkRegExp(w, name) ==
    IF w.documentIsAccessible
    THEN getCookieRegExpTest(encodeURIComponent(name), w.cookie).value
    ELSE MapHas(combinedCookies(w), name)

\* cookies[key] = value on a plain object, as the entries of its own
\* properties in the order of creation.  The key __proto__ is the accessor
\* of Object.prototype, whose setter ignores a string: no property is made.
PropertyAssign(cookies, key, value) ==
    IF key = "__proto__" THEN cookies ELSE MapSet(cookies, key, value)

\* str.replace(/^ /, ""): drop one leading space.
StripLeadingSpace(s) ==
    IF s # "" /\ SubSeq(s, 1, 1) = " " THEN Tail(s) ELSE s

\* The callback of forEach in the client branch of getAll of the 18.x
\* build: the properties after one segment of the cookie string.
getAllEntry(cookies, currentCookie) ==
    LET entry(parts) ==
            PropertyAssign(cookies,
                           safeDecodeURIComponent(Str(StripLeadingSpace(parts[1]))),
                           safeDecodeURIComponent(ElementAt(parts, 2)))
    IN  entry(Split(currentCookie, "="))

RECURSIVE getAllFrom(_, _, _)
getAllFrom(segments, i, cookies) ==
    IF i > Len(segments) THEN cookies
    ELSE getAllFrom(segments, i + 1, getAllEntry(cookies, segments[i]))

\* allCookies.forEach((cookieValue, cookieName) => cookies[cookieName] = cookieValue)
RECURSIVE getAllCopy(_, _, _)
getAllCopy(allCookies, i, cookies) ==
    IF i > Len(allCookies) THEN cookies
    ELSE getAllCopy(allCookies, i + 1,
                    PropertyAssign(cookies, allCookies[i][1], allCookies[i][2]))

\* getAll() of the 18.x build: the client branch parses the document cookie
\* string itself, the server branch copies the reconciled map; both assign
\* the properties of a plain object one by one.
getAllByAssignment(w) ==
    IF w.documentIsAccessible
    THEN (IF w.cookie # ""
          THEN PropertyOrder(getAllFrom(Split(w.cookie, ";"), 1, << >>))
          ELSE << >>)
    ELSE PropertyOrder(getAllCopy(combinedCookies(w), 1, << >>))

\* delete(name, path, domain, secure, sameSite = 'Lax') of the 18.x build
deleteWithOutputOptions(w, name, path, domain, secure, sameSite) ==
    setWithOutputOptions(w, name, "",
        ObjectArg(Options(DateOf(1000), path, domain, secure,
                          IF sameSite.type = "undefined" THEN Str("Lax")
                          ELSE sameSite,
                          UndefinedBool)),
        UndefinedString, UndefinedString, UndefinedBool, UndefinedString,
        UndefinedBool)

\* The loop of deleteAll of the 18.x build, which has the text of the loop
\* of deleteEach and calls the delete of its build.
RECURSIVE deleteEachWithOutputOptions(_, _, _, _, _, _, _)
deleteEachWithOutputOptions(r, cookies, i, path, domain, secure, sameSite) ==
    LET after(d) ==
            [world |-> d.world, writes |-> r.writes \o d.writes,
             options |-> d.options, depth |-> r.depth + d.depth,
             threw |-> d.threw]
    IN  IF i > Len(cookies) \/ r.threw THEN r
        ELSE IF MapHas(cookies, "hasOwnProperty") THEN [r EXCEPT !.threw = TRUE]
        ELSE deleteEachWithOutputOptions(
                 after(deleteWithOutputOptions(r.world, cookies[i][1], path,
                                               domain, secure, sameSite)),
                 cookies, i + 1, path, domain, secure, sameSite)

\* deleteAll(path, domain, secure, sameSite = 'Lax') of the 18.x build
deleteAllWithOutputOptions(w, path, domain, secure, sameSite) ==
    deleteEachWithOutputOptions(
        [world |-> w, writes |-> << >>, options |-> EmptyOptions,
         depth |-> 0, threw |-> FALSE],
        getAllByAssignment(w), 1, path, domain, secure, sameSite)


(***************************************************************************)
(* State                                                                   *)
(***************************************************************************)

VARIABLES
    documentIsAccessible,   \* isPlatformBrowser(platformId), fixed at construction
    document,               \* [cookie]: the document cookie string
    request,                \* the injected request, or NoRequest
    response,               \* the injected response, or NoResponse
    now,                    \* new Date().getTime()
    last,                   \* the latest call of the service and its outcome
    ops                     \* number of writing calls made so far

vars == << documentIsAccessible, document, request, response, now, last, ops >>

\* The world the service sees in the current state.
world == World(documentIsAccessible, document.cookie, request, response, now)

(***************************************************************************)
(* Bounds and input sets                                                   *)
(***************************************************************************)

\* Writing calls per behaviour.
MaxOps == 2

Names == {"a", "b"}

Values == {"1", "p=q r"}

\* Names the reading calls ask for: written names, names only the inputs
\* carry, and names nothing carries.
ReadNames == {"a", "b", "a b", "flag", "missing", ""}

Times == {1500, 2 * MsPerDay + 250}

\* Attribute sets of the calls of set within a sequence of calls.
AttributeSets ==
    { EmptyOptions,
      [EmptyOptions EXCEPT !.expires = Num(7), !.path = Str("/app")],
      [EmptyOptions EXCEPT !.expires = Num(-1), !.secure = Bool(TRUE),
                           !.sameSite = Str("Strict")] }

\* Attribute values of a single call of set, in every combination.
AnyAttributeSets ==
    { Options(e, p, d, s, ss, pt) :
        e \in { UndefinedTime, Num(7), Num(0), Num(-1), DateOf(1000), DateOf(3 * MsPerDay) },
        p \in { UndefinedString, Str("/app") },
        d \in { UndefinedString, Str("example.com") },
        s \in { UndefinedBool, Bool(FALSE), Bool(TRUE) },
        ss \in { UndefinedString, Str("Lax"), Str("None"), Str("Strict") },
        pt \in { UndefinedBool, Bool(FALSE), Bool(TRUE) } }

\* Arguments (path, domain, secure, sameSite) of delete and deleteAll.
DeleteArguments ==
    { << UndefinedString, UndefinedString, UndefinedBool, UndefinedString >>,
      << Str("/app"), UndefinedString, Bool(FALSE), Str("None") >> }

\* Cookie strings as a browser or a well-behaved client sends them.
PlainCookieStrings == {"", "a=1; b=2", "b=x%20y"}

\* Set-Cookie headers already queued on the response by earlier handlers.
PlainHeaders ==
    { NoHeader, StringHeader("b=99; Path=/"),
      ArrayHeader(<< "s=1; Path=/", "a=9; Path=/" >>) }

\* Cookie strings of any shape: values with "=", segments without "=",
\* empty segments, malformed and unusual escapes, repeated names.
AnyCookieStrings ==
    { "", "id=abc; theme=dark", "a=1; b=2", "a=b=c", "flag", "a=1; flag; b=2", "%61=1",
      "a=%zz; b=%", "k=%zz; b=x%20y", "a=1; a=2", "a%20b=x%3Dy", "a b=1", "a=1;b=2;", "=v; a=1",
      "%C3%A9=%0A; %C3=1" }

\* Set-Cookie headers of any shape.
AnyHeaders ==
    { NoHeader, StringHeader(""), StringHeader("a=9; Path=/"),
      ArrayHeader(<< "b=99; Path=/", "a=x=y; HttpOnly" >>),
      ArrayHeader(<< "=v; Path=/", "flag; Path=/", "a=7" >>),
      ArrayHeader(<< "a=1", "%61=2; Path=/", "a%20b=%zz" >>) }

\* Names and values of the cookies serialised and parsed back: plain ones,
\* ones that need percent-encoding (among them a character outside ASCII
\* and a line feed), the empty string, and the name of the clause every
\* client cookie string carries.
RoundTripNames == {"a", "x.y-z", "sameSite", "samesite", "a b", "%41", "", "é"}

RoundTripValues == {"1", "", "x.y-z", "p=q r", "a;b", "100%", "é\nÿ"}

\* Cookie strings and headers deleteAll meets: several cookies, names that
\* are array indices, a valueless segment, and a cookie that has the name
\* of a method of the snapshot object.
DeleteAllCookieStrings ==
    { "", "a=1; b=2", "b=x%20y; 10=z; 2=y", "a=1; flag", "a%20b=1; a=2",
      "a=1; hasOwnProperty=x", "x=1; 1000000000=w; 2=y", "%C3%A9=%0A; a=1",
      "a=1; __proto__=x" }

\* Names a single delete is called with: plain ones, an absent one, and one
\* outside ASCII.
DeleteNames == { "a", "b", "zz", "é" }

DeleteAllHeaders ==
    { NoHeader, StringHeader("b=99; Path=/"),
      ArrayHeader(<< "s=1; Path=/", "a=9; Path=/" >>),
      ArrayHeader(<< "hasOwnProperty=1; Path=/" >>) }

\* Names set and delete are called with: plain ones, one with a character
\* the client encoder escapes, and one that reads as a percent escape.
AnyNames == { "a", "b", "session_id", "a b", "%41" }

\* Cookie strings in which a name is carried percent-encoded, alone and
\* next to a cookie whose plain name it decodes to.
NamedCookieStrings == { "", "a=1; b=2", "%61=1", "a=1; %61=5", "%2541=7" }

\* Arguments of the static parser.
ParserArguments == { Str(c) : c \in AnyCookieStrings } \cup { UndefinedString }

(***************************************************************************)
(* Calls                                                                   *)
(***************************************************************************)

NoCall ==
    [op |-> "none", form |-> "", name |-> "", value |-> "",
     attributes |-> EmptyOptions, argument |-> UndefinedString,
     before |-> World(FALSE, "", NoRequest, NoResponse, 0),
     writes |-> << >>, options |-> EmptyOptions, depth |-> 0,
     threw |-> FALSE, retString |-> "", retBool |-> FALSE, retMap |-> << >>]

\* The effect of a writing call with outcome r on the state.
Written(r, call) ==
    /\ document' = [cookie |-> r.world.cookie]
    /\ response' = r.world.response
    /\ last' = [call EXCEPT !.before = world, !.writes = r.writes,
                            !.options = r.options, !.depth = r.depth,
                            !.threw = r.threw]
    /\ ops' = ops + 1
    /\ UNCHANGED << documentIsAccessible, request, now >>

\* The effect of a reading call on the state.
Read(call) ==
    /\ last' = [call EXCEPT !.before = world]
    /\ UNCHANGED << documentIsAccessible, document, request, response, now, ops >>

\* set(name, value, options)
SetCall(name, value, o) ==
    Written(set(world, name, value, ObjectArg(o), UndefinedString,
                UndefinedString, UndefinedBool, UndefinedString, UndefinedBool),
            [NoCall EXCEPT !.op = "set", !.form = "structured", !.name = name,
                           !.value = value, !.attributes = o])

\* set(name, value, expires, path, domain, secure, sameSite, partitioned)
SetLegacyCall(name, value, o) ==
    Written(set(world, name, value, PositionalArg(o.expires), o.path, o.domain, o.secure, o.sameSite, o.partitioned),
            [NoCall EXCEPT !.op = "set", !.form = "legacy", !.name = name,
                           !.value = value, !.attributes = o])

\* set(name, value, options) of the 18.x build
SetWithOutputOptionsCall(name, value, o) ==
    Written(setWithOutputOptions(world, name, value, ObjectArg(o), UndefinedString,
                                 UndefinedString, UndefinedBool, UndefinedString,
                                 UndefinedBool),
            [NoCall EXCEPT !.op = "setWithOutputOptions", !.form = "structured",
                           !.name = name, !.value = value, !.attributes = o])

\* delete(name, path, domain, secure, sameSite)
DeleteCall(name, a) ==
    Written(delete(world, name, a[1], a[2], a[3], a[4]),
            [NoCall EXCEPT !.op = "delete", !.name = name,
                           !.attributes = Options(UndefinedTime, a[1], a[2],
                                                  a[3], a[4], UndefinedBool)])

\* deleteAll(path, domain, secure, sameSite)
DeleteAllCall(a) ==
    Written(deleteAll(world, a[1], a[2], a[3], a[4]),
            [NoCall EXCEPT !.op = "deleteAll",
                           !.attributes = Options(UndefinedTime, a[1], a[2],
                                                  a[3], a[4], UndefinedBool)])

\* delete(name, path, domain, secure, sameSite) of the 18.x build
DeleteWithOutputOptionsCall(name, a) ==
    Written(deleteWithOutputOptions(world, name, a[1], a[2], a[3], a[4]),
            [NoCall EXCEPT !.op = "deleteWithOutputOptions", !.name = name,
                           !.attributes = Options(UndefinedTime, a[1], a[2],
                                                  a[3], a[4], UndefinedBool)])

\* deleteAll(path, domain, secure, sameSite) of the 18.x build
DeleteAllWithOutputOptionsCall(a) ==
    Written(deleteAllWithOutputOptions(world, a[1], a[2], a[3], a[4]),
            [NoCall EXCEPT !.op = "deleteAllWithOutputOptions",
                           !.attributes = Options(UndefinedTime, a[1], a[2],
                                                  a[3], a[4], UndefinedBool)])

\* check(name)
CheckCall(name) ==
    Read([NoCall EXCEPT !.op = "check", !.name = name,
                        !.retBool = check(world, name)])

\* check(name) of the 18.x build
CheckRegExpCall(name) ==
    Read([NoCall EXCEPT !.op = "checkRegExp", !.name = name,
                        !.retBool = checkRegExp(world, name)])

\* get(name)
GetCall(name) ==
    Read([NoCall EXCEPT !.op = "get", !.name = name,
                        !.retString = get(world, name)])

\* getAll()
GetAllCall ==
    Read([NoCall EXCEPT !.op = "getAll", !.retMap = getAll(world)])

\* getCombinedCookies()
GetCombinedCookiesCall ==
    LET returned(r) ==
            Read([NoCall EXCEPT !.op = "getCombinedCookies",
                                !.threw = r.threw, !.retMap = r.value])
    IN  returned(getCombinedCookies(documentIsAccessible, document.cookie,
                                    request, response))

\* SsrCookieService.cookieStringToMap(cookieString)
CookieStringToMapCall(cookieString) ==
    LET returned(r) ==
            Read([NoCall EXCEPT !.op = "cookieStringToMap",
                                !.argument = cookieString,
                                !.threw = r.threw, !.retMap = r.value])
    IN  returned(cookieStringToMap(cookieString))

\* cookieStringToMap of the string setClientCookie(name, value, {}) assigns
SerializeAndParseCall(name, value) ==
    LET returned(cookieString, r) ==
            Read([NoCall EXCEPT !.op = "serializeAndParse", !.name = name,
                                !.value = value, !.argument = cookieString,
                                !.threw = r.threw, !.retMap = r.value])
        parsed(cookieString) == returned(cookieString, cookieStringToMap(cookieString))
    IN  parsed(Str(setClientCookie(name, value, EmptyOptions, now).cookieString))

(***************************************************************************)
(* Specification of sequences of writing calls, on well-formed sources     *)
(***************************************************************************)

\* A freshly constructed service in the browser or on the server.
Constructed(documentCookies, requestCookies, headers, times) ==
    /\ documentIsAccessible \in BOOLEAN
    /\ now \in times
    /\ IF documentIsAccessible
       THEN /\ document \in { [cookie |-> c] : c \in documentCookies }
            /\ request = NoRequest
            /\ response = NoResponse
       ELSE /\ document = [cookie |-> ""]
            /\ request \in { NoRequest, Request(UndefinedString) }
                             \cup { Request(Str(c)) : c \in requestCookies }
            /\ response \in { NoResponse } \cup { Response(h) : h \in headers }
    /\ last = NoCall
    /\ ops = 0

Init == Constructed(PlainCookieStrings, PlainCookieStrings \ {""}, PlainHeaders, {1500})

Set == \E n \in Names, v \in Values, o \in AttributeSets :
          ops < MaxOps /\ SetCall(n, v, o)

Delete == \E n \in Names, a \in DeleteArguments :
             ops < MaxOps /\ DeleteCall(n, a)

DeleteAll == \E a \in DeleteArguments : ops < MaxOps /\ DeleteAllCall(a)

Next == Set \/ Delete \/ DeleteAll

Spec == Init /\ [][Next]_vars

(***************************************************************************)
(* Specification of one call of set with any attributes                    *)
(***************************************************************************)

InitWrite == Constructed({"", "a=1; b=2"}, {"a=1; b=2"}, PlainHeaders, Times)

SetAny == \E o \in AnyAttributeSets : ops = 0 /\ SetCall("a", "p=q r", o)

SetLegacyAny == \E o \in AnyAttributeSets : ops = 0 /\ SetLegacyCall("a", "p=q r", o)

SetWithOutputOptionsAny ==
    \E o \in AnyAttributeSets : ops = 0 /\ SetWithOutputOptionsCall("a", "p=q r", o)

NextWrite == SetAny \/ SetLegacyAny \/ SetWithOutputOptionsAny

SpecWrite == InitWrite /\ [][NextWrite]_vars

(***************************************************************************)
(* Specification of the reading calls, on sources of any shape             *)
(***************************************************************************)

InitRead == Constructed(AnyCookieStrings, AnyCookieStrings, AnyHeaders, {1500})

Check == \E n \in ReadNames : CheckCall(n)

CheckRegExp == \E n \in ReadNames : CheckRegExpCall(n)

Get == \E n \in ReadNames : GetCall(n)

GetAll == GetAllCall

CookieStringToMap == \E c \in ParserArguments : CookieStringToMapCall(c)

GetCombinedCookies == GetCombinedCookiesCall

NextRead ==
    Check \/ CheckRegExp \/ Get \/ GetAll \/ GetCombinedCookies \/ CookieStringToMap

SpecRead == InitRead /\ [][NextRead]_vars

(***************************************************************************)
(* Specification of one deleting call                                      *)
(***************************************************************************)

InitDeleteAll ==
    Constructed(DeleteAllCookieStrings, DeleteAllCookieStrings \ {""},
                DeleteAllHeaders, Times)

DeleteAllOnce == \E a \in DeleteArguments : ops = 0 /\ DeleteAllCall(a)

DeleteWithOutputOptionsOnce ==
    \E n \in DeleteNames, a \in DeleteArguments :
        ops = 0 /\ DeleteWithOutputOptionsCall(n, a)

DeleteAllWithOutputOptionsOnce ==
    \E a \in DeleteArguments : ops = 0 /\ DeleteAllWithOutputOptionsCall(a)

NextDeleteAll ==
    DeleteAllOnce \/ DeleteWithOutputOptionsOnce \/ DeleteAllWithOutputOptionsOnce

SpecDeleteAll == InitDeleteAll /\ [][NextDeleteAll]_vars

(***************************************************************************)
(* Specification of one call of set or delete with a name of any shape     *)
(***************************************************************************)

InitNames ==
    Constructed(NamedCookieStrings, NamedCookieStrings \ {""}, PlainHeaders, {1500})

SetNamed == \E n \in AnyNames, v \in Values, o \in AttributeSets :
               ops = 0 /\ SetCall(n, v, o)

DeleteNamed == \E n \in AnyNames, a \in DeleteArguments :
                  ops = 0 /\ DeleteCall(n, a)

NextNames == SetNamed \/ DeleteNamed

SpecNames == InitNames /\ [][NextNames]_vars

(***************************************************************************)
(* Specification of the parser applied to the client serialisation         *)
(***************************************************************************)

SerializeAndParse ==
    \E n \in RoundTripNames, v \in RoundTripValues : SerializeAndParseCall(n, v)

NextSerialize == SerializeAndParse

SpecSerialize == InitWrite /\ [][NextSerialize]_vars


(***************************************************************************)
(* Properties                                                              *)
(***************************************************************************)

\* The name and the value of a name=value pair as the cookie grammar reads
\* it: the text before the first "=" and the text after it, both
\* percent-decoded; a pair without "=" is a name with the empty value.
NameValue(pair) ==
    LET decoded(name, value) ==
            << safeDecodeURIComponent(Str(name)), safeDecodeURIComponent(Str(value)) >>
        at(p) == IF p = 0 THEN decoded(pair, "")
                 ELSE decoded(SubSeq(pair, 1, p - 1), SubSeq(pair, p + 1, Len(pair)))
    IN  at(IndexOf(pair, "="))

\* The pairs of the queued Set-Cookie entries (the text before the first
\* ";" of each) and of the segments of the request Cookie header.
QueuedPairs ==
    LET pairs(entries) ==
            [i \in 1..Len(entries) |-> NameValue(Split(entries[i], ";")[1])]
    IN  pairs(IF response.present THEN response.setCookie.value ELSE << >>)

RequestPairs ==
    LET pairs(segments) ==
            [i \in 1..Len(segments) |-> NameValue(StripLeadingSpaces(segments[i]))]
    IN  IF request.present /\ request.cookie.type = "string"
        THEN pairs(Split(request.cookie.value, ";")) ELSE << >>

\* C1 as stated: on the server, getAll() gives every name of a queued
\* Set-Cookie entry the value of the last entry of that name, and every
\* name that only the request header carries its (last) request value.
C1_ResponseOverridesRequest ==
    LET holds(result, queued, requested) ==
            /\ \A i \in 1..Len(queued) :
                  (/\ queued[i][1] # ""
                   /\ \A j \in (i + 1)..Len(queued) : queued[j][1] # queued[i][1])
                      => \E k \in 1..Len(result) : result[k] = queued[i]
            /\ \A i \in 1..Len(requested) :
                  (/\ requested[i][1] # ""
                   /\ \A j \in 1..Len(queued) : queued[j][1] # requested[i][1]
                   /\ \A j \in (i + 1)..Len(requested) :
                         requested[j][1] # requested[i][1])
                      => \E k \in 1..Len(result) : result[k] = requested[i]
    IN  (last.op = "getAll" /\ ~documentIsAccessible)
            => holds(last.retMap, QueuedPairs, RequestPairs)


\* C2 as stated: in either context and after any earlier calls, get(name)
\* right after set(name, value, ...) returns value.
C2_SetThenGet ==
    (last.op = "set" /\ ~last.threw) => get(world, last.name) = last.value

\* C3 as stated: for every name and whatever the sources held, get(name)
\* right after delete(name) returns the empty string.
C3_DeleteThenGet ==
    last.op = "delete" => get(world, last.name) = ""

\* C4 as stated: after deleteAll(), get(n) is empty for every name n of the
\* snapshot getAll() gave when deleteAll was called.
C4_DeleteAllThenGet ==
    last.op = "deleteAll" =>
        \A n \in ObjectKeys(getAll(last.before)) : get(world, n) = ""

\* The clauses of a client cookie string: the text between the ";".
Clauses(cookieString) ==
    LET parts == Split(cookieString, ";") IN { parts[i] : i \in 1..Len(parts) }

\* Does a hand-over to a sink carry the secure flag?
WriteIsSecure(write) ==
    IF write.sink = "document" THEN "secure" \in Clauses(write.cookieString)
    ELSE write.expressOptions.secure = Bool(TRUE)

\* C5 as stated: a set call whose attributes have secure false and sameSite
\* None hands a secure cookie to its sink, in the browser (the secure
\* token) and on the server (secure = true in the attribute record).
C5_SecureForcedInBothSinks ==
    (/\ last.op = "set"
     /\ last.attributes.secure = Bool(FALSE)
     /\ last.attributes.sameSite = Str("None"))
        => \A i \in 1..Len(last.writes) : WriteIsSecure(last.writes[i])

\* C6 as stated: a positional call of set hands its sink exactly what the
\* structured call with the same attribute values hands it.
C6_LegacyEqualsStructured ==
    (last.op = "set" /\ last.form = "legacy") =>
        last.writes =
            set(last.before, last.name, last.value, ObjectArg(last.attributes),
                UndefinedString, UndefinedString, UndefinedBool,
                UndefinedString, UndefinedBool).writes

\* C7 as stated: the parser returns an empty map and raises no error for
\* the empty string and for undefined.
C7_EmptyInputParsesToEmptyMap ==
    (/\ last.op = "cookieStringToMap"
     /\ (last.argument = Str("") \/ last.argument.type = "undefined"))
        => (~last.threw /\ last.retMap = EmptyMap)

\* C8: check(name) is true exactly when name is a key of getAll().
C8_CheckIffKeyOfGetAll ==
    last.op = "check" => (last.retBool <=> last.name \in ObjectKeys(getAll(world)))

\* C8 witness: check returned true for a key of getAll() on the server,
\* where the key comes from a queued Set-Cookie entry only.
C8_Witness ==
    /\ last.op = "check"
    /\ last.retBool
    /\ ~documentIsAccessible
    /\ last.name \in ObjectKeys(getAll(world))
    /\ ~MapHas(cookieStringToMap(Str(requestCookieHeader(request))).value, last.name)

\* C9: get(name) returns the value getAll() holds for name, and the empty
\* string when getAll() has no such key.
C9_GetReturnsValueOrEmpty ==
    last.op = "get" =>
        LET all == getAll(world)
        IN  IF last.name \in ObjectKeys(all)
            THEN << last.name, last.retString >> \in { all[i] : i \in 1..Len(all) }
            ELSE last.retString = ""

\* C9 witness: get returned a value that the parser had to decode.
C9_Witness ==
    /\ last.op = "get"
    /\ last.name = "a b"
    /\ last.retString = "x=y"

\* C10 as stated: in the browser the regular-expression check returns what
\* the map-based check returns, for every document cookie string and name.
C10_RegExpCheckEqualsMapCheck ==
    (last.op = "checkRegExp" /\ documentIsAccessible)
        => last.retBool = check(world, last.name)


\* Does a hand-over to a sink carry the same-site token: as the clause
\* sameSite=<token> of the cookie string, or as the sameSite field of the
\* attribute record?
WriteHasSameSite(write, clientToken, serverToken) ==
    IF write.sink = "document"
    THEN ("sameSite=" \o clientToken) \in Clauses(write.cookieString)
    ELSE write.expressOptions.sameSite = Str(serverToken)

\* C11 as stated: a set call whose attributes omit sameSite hands its sink
\* the default Lax, in the browser (sameSite=Lax) and on the server (the
\* attribute record carries lax).
C11_SameSiteDefaultsToLax ==
    (/\ last.op = "set"
     /\ last.attributes.sameSite.type = "undefined")
        => \A i \in 1..Len(last.writes) :
              WriteHasSameSite(last.writes[i], "Lax", "lax")

\* C12 as stated: whatever sameSite token a set call is given, the cookie
\* string of the browser carries the token as given and the attribute
\* record of the server carries it in lower case; in both builds of set.
C12_SameSiteCasePerSink ==
    (/\ last.op \in {"set", "setWithOutputOptions"}
     /\ last.attributes.sameSite.type = "string")
        => \A i \in 1..Len(last.writes) :
              WriteHasSameSite(last.writes[i], last.attributes.sameSite.value,
                               toLowerCase(last.attributes.sameSite.value))

\* Is the text made only of characters percent-encoding leaves unchanged?
IsSafe(text) ==
    \A i \in 1..Len(text) : IndexOf(UriUnreserved, CharAt(text, i)) # 0

\* C13 as stated: for every name and value made only of characters that
\* are safe under percent-encoding, the parser maps name to value in the
\* map it builds from the client serialisation of (name, value, {}).
C13_RoundTrip ==
    (last.op = "serializeAndParse" /\ IsSafe(last.name) /\ IsSafe(last.value))
        => (~last.threw /\ MapGet(last.retMap, last.name) = Str(last.value))

\* C13 amended: the same for every such name that is not empty and is not
\* sameSite, the name of the clause the serialisation always carries.
C13_RoundTripOfOtherNames ==
    (/\ last.op = "serializeAndParse"
     /\ IsSafe(last.name) /\ IsSafe(last.value)
     /\ last.name \notin {"", "sameSite"})
        => (~last.threw /\ MapGet(last.retMap, last.name) = Str(last.value))

\* C13 witness: a name and a value of several safe characters came back
\* from the parser, next to the sameSite clause.
C13_Witness ==
    /\ last.op = "serializeAndParse"
    /\ last.name = "x.y-z"
    /\ last.value = "x.y-z"
    /\ last.argument = Str("x.y-z=x.y-z;sameSite=Lax;")
    /\ MapGet(last.retMap, "x.y-z") = Str("x.y-z")
    /\ MapGet(last.retMap, "sameSite") = Str("Lax")


\* C14: on the server the reconciler raises no error when the request, the
\* response or both are absent, and returns the map of what is present: the
\* empty map with neither, the parsed Cookie header with the request only,
\* the merged Set-Cookie entries with the response only.
C14_ReconcilerTotalOnAbsentSources ==
    (/\ last.op = "getCombinedCookies"
     /\ ~documentIsAccessible
     /\ (~request.present \/ ~response.present))
        => /\ ~last.threw
           /\ last.retMap =
                 IF request.present
                 THEN cookieStringToMap(Str(requestCookieHeader(request))).value
                 ELSE IF response.present
                 THEN mergeResponseCookies(responseCookies(response), 1, EmptyMap)
                 ELSE EmptyMap

\* C14 witness: with no request, the reconciler returned the cookies of the
\* Set-Cookie entries queued on the response.
C14_Witness ==
    /\ last.op = "getCombinedCookies"
    /\ ~documentIsAccessible
    /\ ~request.present
    /\ response.present
    /\ ~last.threw
    /\ MapGet(last.retMap, "b") = Str("99")


\* The segments of the argument of the latest parser call, and the pair
\* each of them is under the cookie grammar.
ParsedSegments ==
    IF last.argument.type = "string" /\ last.argument.value # ""
    THEN Split(last.argument.value, ";") ELSE << >>

SegmentPairs(segments) ==
    [i \in 1..Len(segments) |-> NameValue(StripLeadingSpaces(segments[i]))]

\* Is segment i the last one of its name?
LastOfName(pairs, i) ==
    \A j \in (i + 1)..Len(pairs) : pairs[j][1] # pairs[i][1]

\* C15 as stated: the parser splits a segment once, on its first "=": the
\* name of a segment with "=" maps to all the text after the first "="
\* (percent-decoded), as in a=b=c, where a maps to b=c.
C15_SplitOnFirstEquals ==
    LET holds(segments, pairs) ==
            \A i \in 1..Len(segments) :
                (IndexOf(segments[i], "=") # 0 /\ LastOfName(pairs, i))
                    => MapGet(last.retMap, pairs[i][1]) = Str(pairs[i][2])
        over(segments) == holds(segments, SegmentPairs(segments))
    IN  last.op = "cookieStringToMap" => (~last.threw => over(ParsedSegments))

\* C16 as stated: a segment without "=" is parsed without error, its name
\* being the whole segment and its value the empty string.
C16_NoEqualsGivesEmptyValue ==
    LET holds(segments, pairs) ==
            \A i \in 1..Len(segments) :
                (IndexOf(segments[i], "=") = 0 /\ LastOfName(pairs, i))
                    => MapGet(last.retMap,
                              safeDecodeURIComponent(Str(StripLeadingSpaces(segments[i]))))
                          = Str("")
        over(segments) == holds(segments, SegmentPairs(segments))
    IN  (last.op = "cookieStringToMap" /\ last.argument.type = "string")
            => (~last.threw /\ over(ParsedSegments))


\* The text itself when decodeURIComponent rejects it, its decoding otherwise.
RawOnFailure(text) ==
    LET caught(d) == IF d.threw THEN text ELSE d.value
    IN  caught(decodeURIComponent(Str(text)))

\* C17: the parser raises nothing on a string, whatever its escapes; a name
\* or a value decodeURIComponent rejects is kept as written, and every
\* other segment of the string is still parsed and decoded.
C17_DecodingNeverRaises ==
    LET decoded(parts) == << RawOnFailure(StripLeadingSpaces(parts[1])),
                             RawOnFailure(parts[2]) >>
        holds(segments, pairs) ==
            \A i \in 1..Len(segments) :
                (Len(Split(segments[i], "=")) = 2 /\ LastOfName(pairs, i))
                    => \E k \in 1..Len(last.retMap) :
                          last.retMap[k] = decoded(Split(segments[i], "="))
        over(segments) == holds(segments, SegmentPairs(segments))
    IN  (last.op = "cookieStringToMap" /\ last.argument.type = "string")
            => (~last.threw /\ over(ParsedSegments))

\* C17 witness: a value with a malformed escape came back as written, next
\* to a segment whose value was decoded.
C17_Witness ==
    /\ last.op = "cookieStringToMap"
    /\ last.argument = Str("k=%zz; b=x%20y")
    /\ decodeURIComponent(Str("%zz")).threw
    /\ ~last.threw
    /\ last.retMap = << << "k", "%zz" >>, << "b", "x y" >> >>


\* Does a hand-over to a sink carry the expiry t: as the clause
\* expires=<HTTP date of t> of the cookie string, or as the expires field
\* of the attribute record?
WriteExpiresAt(write, t) ==
    IF write.sink = "document"
    THEN ("expires=" \o toUTCString(t)) \in Clauses(write.cookieString)
    ELSE write.expressOptions.expires = DateOf(t)

\* Does a hand-over to a sink carry no expiry at all?
WriteIsSessionCookie(write) ==
    IF write.sink = "document"
    THEN \A c \in Clauses(write.cookieString) : ~StartsWithAt(c, 1, "expires=")
    ELSE write.expressOptions.expires.type = "undefined"

\* C18 as stated: a set call whose expires is a number of days d, zero and
\* negative numbers included, hands its sink the expiry now + d * 86,400,000
\* milliseconds; a call without expires hands it a session cookie.
C18_DayCountExpiry ==
    last.op = "set" =>
        \A i \in 1..Len(last.writes) :
            /\ last.attributes.expires.type = "number"
                  => WriteExpiresAt(last.writes[i],
                                    now + last.attributes.expires.value * 86400000)
            /\ last.attributes.expires.type = "undefined"
                  => WriteIsSessionCookie(last.writes[i])


\* The client cookie string the clause grammar gives for the attributes a:
\* name=value, then one clause for each attribute that is present (expires,
\* path, domain, sameSite with its default) or true (secure, also when it
\* is forced by sameSite None, and Partitioned), in the fixed order.
ClauseString(name, value, a, t) ==
    encodeURIComponent(name) \o "=" \o encodeURIComponent(value) \o ";"
        \o (IF a.expires.type = "undefined" THEN ""
            ELSE "expires="
                     \o toUTCString(IF a.expires.type = "number"
                                    THEN t + a.expires.value * 86400000
                                    ELSE a.expires.value)
                     \o ";")
        \o (IF a.path.type = "undefined" THEN "" ELSE "path=" \o a.path.value \o ";")
        \o (IF a.domain.type = "undefined" THEN ""
            ELSE "domain=" \o a.domain.value \o ";")
        \o (IF a.secure = Bool(TRUE)
               \/ (a.secure = Bool(FALSE) /\ a.sameSite = Str("None"))
            THEN "secure;" ELSE "")
        \o "sameSite="
        \o (IF a.sameSite.type = "undefined" THEN "Lax" ELSE a.sameSite.value)
        \o ";"
        \o (IF a.partitioned = Bool(TRUE) THEN "Partitioned;" ELSE "")

\* C19 as stated: the string a structured set call assigns to the document
\* is name=value followed by the clauses expires, path, domain, secure,
\* sameSite and Partitioned in that order, each of them there exactly when
\* its attribute is present or true, secure and Partitioned as bare tokens.
C19_ClientCookieStringClauses ==
    (last.op = "set" /\ last.form = "structured" /\ documentIsAccessible)
        => /\ ~last.threw
           /\ Len(last.writes) = 1
           /\ last.writes[1].cookieString =
                 ClauseString(last.name, last.value, last.attributes, now)


\* C20 as stated: set takes its positional branch (and calls itself with
\* the attributes object it builds) exactly when the third argument is a
\* number or a Date or one of path, domain, secure and sameSite is supplied,
\* whatever its value; otherwise the third argument is the attributes
\* object and the encoder is called at once.
C20_LegacyFormSelection ==
    LET supplied(a) ==
            \/ a.expires.type \in {"number", "Date"}
            \/ a.path.type # "undefined"
            \/ a.domain.type # "undefined"
            \/ a.secure.type # "undefined"
            \/ a.sameSite.type # "undefined"
    IN  last.op = "set" =>
            last.depth = IF last.form = "legacy" /\ supplied(last.attributes)
                         THEN 2 ELSE 1


\* Is the positional call with the attribute values a one that set repacks:
\* a number or a Date in the third slot, or a truthy later slot?
IsRepacked(a) ==
    \/ a.expires.type \in {"number", "Date"}
    \/ Truthy(a.path)
    \/ Truthy(a.domain)
    \/ Truthy(a.secure)
    \/ Truthy(a.sameSite)

\* C21 as stated: every call of set returns; a positional call is repacked
\* exactly once (set calls itself once, and the nested call goes to the
\* encoder), and the call performs exactly one write to its sink.
C21_RepackedOnceOneWrite ==
    last.op = "set" =>
        /\ ~last.threw
        /\ last.depth = IF last.form = "legacy" /\ IsRepacked(last.attributes)
                        THEN 2 ELSE 1
        /\ Len(last.writes) = 1

\* C21 amended: the same, with exactly one write where a sink is there (the
\* browser, or the server with a response) and no write on the server
\* without a response.
C21_RepackedOnceAtMostOneWrite ==
    last.op = "set" =>
        /\ ~last.threw
        /\ last.depth = IF last.form = "legacy" /\ IsRepacked(last.attributes)
                        THEN 2 ELSE 1
        /\ Len(last.writes) =
              IF documentIsAccessible \/ last.before.response.present
              THEN 1 ELSE 0

\* C21 witness: a positional call with every slot filled was repacked once
\* and wrote one entry to the response.
C21_Witness ==
    /\ last.op = "set"
    /\ last.form = "legacy"
    /\ last.attributes.expires = Num(7)
    /\ last.attributes.path = Str("/app")
    /\ last.attributes.secure = Bool(TRUE)
    /\ last.attributes.sameSite = Str("None")
    /\ ~documentIsAccessible
    /\ last.before.response.present
    /\ last.depth = 2
    /\ Len(last.writes) = 1


\* The name a hand-over to a sink is for: the text before the first "=" of
\* the cookie string, decoded, or the name given to response.cookie.
WriteName(write) ==
    IF write.sink = "document"
    THEN safeDecodeURIComponent(
             Str(SubSeq(write.cookieString, 1, IndexOf(write.cookieString, "=") - 1)))
    ELSE write.name

\* C22 as stated: deleteAll calls delete exactly once for each name of the
\* snapshot getAll() gives at its start, in the order of the snapshot, and
\* for no other name; where a sink is there, each call is one write for
\* its name.
C22_DeletesEachSnapshotNameOnce ==
    LET holds(snapshot) ==
            /\ ~last.threw
            /\ last.depth = Len(snapshot)
            /\ (documentIsAccessible \/ last.before.response.present)
                  => /\ Len(last.writes) = Len(snapshot)
                     /\ \A i \in 1..Len(snapshot) :
                           WriteName(last.writes[i]) = snapshot[i][1]
    IN  last.op = "deleteAll" => holds(getAll(last.before))


\* The names an attribute clause of a client cookie string can have.
ClauseNames == {"expires", "path", "domain", "secure", "sameSite", "Partitioned"}

\* Does the cookie string describe the cookie name alone: name=value first,
\* and after it attribute clauses only?
DescribesOnly(cookieString, name) ==
    LET only(segments) ==
            /\ StartsWithAt(segments[1], 1, encodeURIComponent(name) \o "=")
            /\ \A i \in 2..Len(segments) :
                  segments[i] = "" \/ Split(segments[i], "=")[1] \in ClauseNames
    IN  only(Split(cookieString, ";"))

\* The cookies of a document cookie string that have another name.
OtherCookies(docCookie, name) ==
    SelectSeq(documentCookieEntries(docCookie), LAMBDA e : e.name # name)

\* C23: set and delete leave unrelated entries alone.  On the server with a
\* response, the Set-Cookie entries after the call are the entries before
\* it followed by one entry for the named cookie; without a response
\* nothing changes; the request is never changed.  In the browser the
\* string assigned describes the named cookie alone, and the other cookies
\* of the document stay as they were.
C23_WriteKeepsOtherEntries ==
    LET appended(before, after) ==
            /\ Len(after) = Len(before) + 1
            /\ SubSeq(after, 1, Len(before)) = before
            /\ responseCookieName(after[Len(after)]) = last.name
        server ==
            /\ request = last.before.request
            /\ IF last.before.response.present
               THEN /\ Len(last.writes) = 1
                    /\ appended(responseCookies(last.before.response),
                                responseCookies(response))
               ELSE response = last.before.response
        client ==
            /\ Len(last.writes) = 1
            /\ DescribesOnly(last.writes[1].cookieString, last.name)
            /\ OtherCookies(document.cookie, last.name)
                  = OtherCookies(last.before.cookie, last.name)
    IN  last.op \in {"set", "delete"}
            => IF documentIsAccessible THEN client ELSE server

\* C23 witness: a delete was queued after two earlier entries, one of them
\* for the same name, and both are still there.
C23_Witness ==
    /\ last.op = "delete"
    /\ last.name = "a"
    /\ ~documentIsAccessible
    /\ last.before.response.setCookie = ArrayHeader(<< "s=1; Path=/", "a=9; Path=/" >>)
    /\ Len(response.setCookie.value) = 3
    /\ SubSeq(response.setCookie.value, 1, 2) = << "s=1; Path=/", "a=9; Path=/" >>
    /\ responseCookieName(response.setCookie.value[3]) = "a"


\* The decoded name of a Set-Cookie entry: of the pair before its first ";".
EntryName(entry) == NameValue(Split(entry, ";")[1])[1]

\* C24: on the server a Set-Cookie entry whose decoded name is empty leaves
\* the working map as it is: the reconciled map is the one the entries of
\* non-empty name alone give, and it holds for the empty name what the
\* request gave for it.
C24_EmptyNameEntryIgnored ==
    LET holds(requestCookies, entries) ==
            /\ MapGet(last.retMap, "") = MapGet(requestCookies, "")
            /\ last.retMap =
                  mergeResponseCookies(
                      SelectSeq(entries, LAMBDA e : EntryName(e) # ""),
                      1, requestCookies)
    IN  (last.op = "getCombinedCookies" /\ ~documentIsAccessible)
            => holds(cookieStringToMap(Str(requestCookieHeader(request))).value,
                     responseCookies(response))

\* C24 witness: of three queued entries the one without a name left no
\* trace in the reconciled map, and the named ones are there.
C24_Witness ==
    /\ last.op = "getCombinedCookies"
    /\ ~documentIsAccessible
    /\ request = Request(Str("a=1; b=2"))
    /\ response = Response(ArrayHeader(<< "=v; Path=/", "flag; Path=/", "a=7" >>))
    /\ ~MapHas(last.retMap, "")
    /\ MapGet(last.retMap, "a") = Str("7")
    /\ MapHas(last.retMap, "flag")


\* C25 as stated: on the server, right after delete(name) the cookie is
\* absent for the readers: check(name) is false and getAll() has no key
\* name, whether the request or an earlier write carried the cookie.
C25_DeletedCookieIsAbsent ==
    (last.op = "delete" /\ ~documentIsAccessible)
        => /\ ~check(world, last.name)
           /\ last.name \notin ObjectKeys(getAll(world))


\* Does a hand-over to a sink carry the same-site token None, in any case?
WriteIsSameSiteNone(write) ==
    IF write.sink = "document"
    THEN \E c \in Clauses(write.cookieString) : toLowerCase(c) = "samesite=none"
    ELSE write.expressOptions.sameSite.type = "string"
         /\ toLowerCase(write.expressOptions.sameSite.value) = "none"

\* C26 as stated: no write of set, in either build and in either sink,
\* carries sameSite None without the secure flag, whatever the call gave
\* for secure.
C26_NoneImpliesSecure ==
    last.op \in {"set", "setWithOutputOptions"}
        => \A i \in 1..Len(last.writes) :
              WriteIsSameSiteNone(last.writes[i]) => WriteIsSecure(last.writes[i])


\* The values the Set-Cookie entries of a response hold for a name, in the
\* order of the entries.
QueuedValues(res, name) ==
    LET values(pairs) ==
            [i \in 1..Len(pairs) |-> pairs[i][2]]
        named(entries) ==
            values(SelectSeq([i \in 1..Len(entries) |->
                                 NameValue(Split(entries[i], ";")[1])],
                             LAMBDA p : p[1] = name))
    IN  named(responseCookies(res))

\* C27: on the server, when set(name, value) follows an earlier write of
\* the same name in the same response, the readers see the later value:
\* get(name) returns value and getAll() has one entry for name, whatever
\* the request carried for it.
C27_LastSetWins ==
    LET holds(all) ==
            /\ Cardinality({ i \in 1..Len(all) : all[i][1] = last.name }) = 1
            /\ << last.name, last.value >> \in { all[i] : i \in 1..Len(all) }
    IN  (/\ last.op = "set"
         /\ ~documentIsAccessible
         /\ last.before.response.present
         /\ QueuedValues(last.before.response, last.name) # << >>)
            => /\ get(world, last.name) = last.value
               /\ holds(getAll(world))

\* C27 witness: the second of two set calls for a name the request carries
\* too gave the readers its own value in place of the first call's.
C27_Witness ==
    /\ last.op = "set"
    /\ ops = 2
    /\ ~documentIsAccessible
    /\ request = Request(Str("a=1; b=2"))
    /\ last.before.response.setCookie.type = "string"
    /\ last.name = "a"
    /\ last.value = "p=q r"
    /\ QueuedValues(last.before.response, "a") = << "1" >>
    /\ QueuedValues(response, "a") = << "1", "p=q r" >>
    /\ get(world, "a") = "p=q r"


\* C28 as stated: the map the parser returns, and the object getAll()
\* returns, never have the empty string for a cookie name.
C28_NoEmptyName ==
    /\ last.op = "cookieStringToMap" => ~MapHas(last.retMap, "")
    /\ last.op = "getAll" => "" \notin ObjectKeys(last.retMap)


\* C29 as stated: after a structured call of set, in either build, the
\* attributes object of the caller has the secure and sameSite fields it
\* had before the call.
C29_CallerObjectUnchanged ==
    (last.op \in {"set", "setWithOutputOptions"} /\ last.form = "structured")
        => /\ last.options.secure = last.attributes.secure
           /\ last.options.sameSite = last.attributes.sameSite


\* C30 as stated: on the server without a response, set, delete and
\* deleteAll raise no error and change nothing: the request and the absent
\* response are as before, and check, get and getAll return what they
\* returned before the call.
C30_NoResponseNoEffect ==
    LET same(worlds) ==
            /\ Cardinality({ getAll(w) : w \in worlds }) = 1
            /\ \A n \in ReadNames :
                  Cardinality({ << check(w, n), get(w, n) >> : w \in worlds }) = 1
    IN  (/\ last.op \in {"set", "delete", "deleteAll"}
         /\ ~documentIsAccessible
         /\ ~last.before.response.present)
            => /\ ~last.threw
               /\ last.writes = << >>
               /\ world = last.before
               /\ same({ world, last.before })

====
